---- MODULE Spec2Model ----
(***************************************************************************)
(* Real-time synchronisation layer of the event management application.    *)
(*                                                                         *)
(*   - the events store of the frontend (stores/events.ts): the mirror     *)
(*     `events`, its three write paths and its connection manager;         *)
(*   - the websocket service of the server (services/websocket.service.ts) *)
(*     and the /ws route (index.ts): live set, topics, heartbeat,          *)
(*     broadcast;                                                          *)
(*   - the controllers that commit a write and then broadcast it.          *)
(*                                                                         *)
(* Each part has its own specification over the shared variables; the      *)
(* variables of the other parts keep their initial value.                  *)
(***************************************************************************)
EXTENDS Integers, Sequences, FiniteSets, TLC

VARIABLES
    \* ---- events store: mirror (stores/events.ts:14)
    events,          \* ref<Event[]>: sequence of event records
    pre,             \* history: the mirror before the last store operation
    last,            \* history: the last store operation and its payload
    \* ---- events store: connection manager (stores/events.ts:17-20)
    ws,              \* readyState of the socket ws.value refers to, or "null"
    stale,           \* sockets the store called close() on, close event due
    wsRetryCount,    \* ref(0)
    wsRetryTimeout,  \* TRUE when wsRetryTimeout.value holds a timer id
    timerArmed,      \* the timer of wsRetryTimeout is pending
    retryDelay,      \* the delay given to the last window.setTimeout
    created,         \* number of `new WebSocket` so far
    closes,          \* history: close events handled since the last open
                     \* or disconnectWebSocket()
    staleCloses,     \* history: those of them that were close events of
                     \* sockets the store had closed itself
    disconnected,    \* history: disconnectWebSocket() returned and
                     \* connectWebSocket() was not called since
    lastCx,          \* history: the last handler of the connection manager
    \* ---- server: services/websocket.service.ts and the /ws route
    serverInstance,  \* "null" or "server" (a server with publish)
    heartbeatIntervalId, \* TRUE when the shared heartbeat interval is set
    caps,            \* what the runtime's ws object offers: on, ping
                     \* (the `typeof ws.x === 'function'` tests)
    readyState,      \* per connection: "none", "open", "closing", "closed"
    sendThrows,      \* connections whose send() throws
    connections,     \* the Set `connections`, in insertion order
    isAlive,         \* per connection: ws._isAlive
    topics,          \* subscribers of "events" and of "rsvps"
    hbIntervals,     \* connections whose per-connection interval is set
    pingOut,         \* connections with a native ping not yet answered
    hb,              \* history of the heartbeat: probed, acked, missed,
                     \* reaped, late (sets of connections)
    lastSrv,         \* history: the broadcast just run, if the last step
                     \* was one: the set before it, frames each connection
                     \* got, whether the call threw
    \* ---- server: controllers over the database
    dbEvents,        \* per event id: its row (state, organizerId)
    dbRsvps,         \* the RSVP rows, as <<eventId, userId>>
    req,             \* the controller call being followed, with its history
    \* ---- frontend: services/websocket.service.ts (the singleton client)
    svcWs,           \* readyState of the socket `ws` refers to, or "null";
                     \* "errored": failed, error delivered, close event due
    isConnected,     \* let isConnected = false
    reconnectAttempts, \* let reconnectAttempts = 0
    reconnectTimeout,  \* TRUE when reconnectTimeout holds a timer id
    reconnectArmed,  \* the timer of reconnectTimeout is pending
    reconnectDelay,  \* the delay given to the last window.setTimeout
    heartbeatInterval, \* TRUE when the ping interval is set
    owed,            \* sockets the service closed, by the events they still
                     \* owe: err (error, then close 1006), abn (close 1006),
                     \* clean (close 1000)
    messageHandlers, \* the registry, in registration order
    svcH,            \* history of the client: sockets created, automatic
                     \* attempts, disconnect() called, the last step
    svcMsg,          \* history: the last frame handled and what it caused
    \* The network between the server and the events store of one client
    net,             \* frames in flight per connection; history: the
                     \* connection each committed event was published to
    \* The Home view and the REST exchange of fetchEvents
    home,            \* position of onMounted, and whether onUnmounted ran
    api              \* the events the server has committed, the GET /events
                     \* exchange in flight, and the broadcasts not yet
                     \* delivered

storeVars == <<events, pre, last>>

connVars == <<ws, stale, wsRetryCount, wsRetryTimeout, timerArmed, retryDelay,
              created, closes, staleCloses, disconnected, lastCx>>

srvVars == <<serverInstance, heartbeatIntervalId, caps, readyState,
             sendThrows, connections, isAlive, topics, hbIntervals, pingOut,
             hb, lastSrv>>

ctlVars == <<dbEvents, dbRsvps, req>>

svcVars == <<svcWs, isConnected, reconnectAttempts, reconnectTimeout,
             reconnectArmed, reconnectDelay, heartbeatInterval, owed,
             messageHandlers, svcH, svcMsg>>

netVars == <<net>>

viewVars == <<home, api>>

vars == <<storeVars, connVars, srvVars, ctlVars, svcVars, netVars, viewVars>>

\* What the store's mirror paths, the connection manager and the server
\* leave alone.
notStore == <<connVars, srvVars, ctlVars, svcVars, netVars, viewVars>>
notConn == <<storeVars, srvVars, ctlVars, svcVars, netVars, viewVars>>
notSrv == <<storeVars, connVars, ctlVars, svcVars, netVars, viewVars>>
notCtl == <<storeVars, connVars, svcVars, netVars, viewVars>>
notSvc == <<storeVars, connVars, srvVars, ctlVars, netVars, viewVars>>

NoOwed == [err |-> 0, abn |-> 0, clean |-> 0]

NoSvcH == [created |-> 0, auto |-> 0, disconnected |-> FALSE, op |-> "none",
           silent |-> FALSE]

NoSvcMsg == [kind |-> "none", json |-> FALSE, type |-> "none", open |-> FALSE,
             registered |-> <<>>, throwers |-> {}, called |-> <<>>,
             pongs |-> 0, escaped |-> FALSE, afterThrow |-> FALSE]

\* The client service module at load.
SvcIdle ==
    /\ svcWs = "null"
    /\ isConnected = FALSE
    /\ reconnectAttempts = 0
    /\ reconnectTimeout = FALSE
    /\ reconnectArmed = FALSE
    /\ reconnectDelay = 0
    /\ heartbeatInterval = FALSE
    /\ owed = NoOwed
    /\ messageHandlers = <<>>
    /\ svcH = NoSvcH
    /\ svcMsg = NoSvcMsg

\* Bound: event ids of the database, 1..MaxDbEvents.
MaxDbEvents == 1

DbEventIds == 1..MaxDbEvents

Principals == {"u1", "u2"}

Roles == {"USER", "ADMIN"}

NoRow == [state |-> "absent", organizerId |-> "none"]

NoReq == [h |-> "none", state |-> "idle", pc |-> 0, eventId |-> 0,
          userId |-> "none", userRole |-> "none", changes |-> FALSE,
          rsvps |-> FALSE, adminOther |-> FALSE, existed |-> FALSE,
          status |-> 0, sent |-> <<>>, sentAt |-> 0, commits |-> 0,
          failure |-> "none"]

\* An empty database and no call in flight.
CtlIdle ==
    /\ dbEvents = [e \in DbEventIds |-> NoRow]
    /\ dbRsvps = {}
    /\ req = NoReq

\* Bound: server-side connections 1..MaxConns.
MaxConns == 3

Conns == 1..MaxConns

\* Nothing in flight, nothing published.
NetIdle ==
    net = [wire |-> [c \in Conns |-> <<>>], sentTo |-> <<>>]

\* The Home view not mounted, no request sent, nothing committed.
ViewIdle ==
    /\ home = [pc |-> "none", unmounted |-> FALSE]
    /\ api = [committed |-> <<>>, fetch |-> "none", response |-> <<>>,
              frames |-> <<>>, applied |-> {}]

NoStep == [op |-> "none", pre |-> <<>>, got |-> [c \in Conns |-> 0],
           threw |-> FALSE]

NoHb == [probed |-> {}, acked |-> {}, missed |-> {}, reaped |-> {}, late |-> {}]

\* The server module at load: no server instance, no heartbeat, no
\* connection.
SrvIdle ==
    /\ serverInstance = "null"
    /\ heartbeatIntervalId = FALSE
    /\ caps = [on |-> FALSE, ping |-> FALSE]
    /\ readyState = [c \in Conns |-> "none"]
    /\ sendThrows = {}
    /\ connections = <<>>
    /\ isAlive = [c \in Conns |-> "undefined"]
    /\ topics = [events |-> {}, rsvps |-> {}]
    /\ hbIntervals = {}
    /\ pingOut = {}
    /\ hb = NoHb
    /\ lastSrv = NoStep

\* The connection manager at construction; also its value in the
\* specifications of the other parts, which never touch it.
ConnIdle ==
    /\ ws = "null"
    /\ stale = 0
    /\ wsRetryCount = 0
    /\ wsRetryTimeout = FALSE
    /\ timerArmed = FALSE
    /\ retryDelay = 0
    /\ created = 0
    /\ closes = 0
    /\ staleCloses = 0
    /\ disconnected = FALSE
    /\ lastCx = "none"


(***************************************************************************)
(* Bounds of the mirror model.                                             *)
(***************************************************************************)
MaxEventId == 2      \* event ids 1..MaxEventId
MaxFetch == 2        \* length of a fetched list (approved ++ pending)
MaxUserId == 2       \* user ids 1..MaxUserId

EventIds == 1..MaxEventId
UserIds == 1..MaxUserId
\* Two contents are enough to tell a replaced entity from the one it replaced.
Titles == {"t1", "t2"}
\* RsvpStatus of types/index.ts; two of the three values are drawn.
Statuses == {"GOING", "MAYBE"}

\* `message.data.event` / `message.data.rsvp` absent (undefined in the code).
NoEvent == [id |-> 0, title |-> "none", hasRsvps |-> FALSE, rsvps |-> <<>>]
NoRsvp == [userId |-> 0, status |-> "none"]

\* An Event as the client holds it: `rsvps?: RSVP[]` is optional, so an event
\* carries hasRsvps = FALSE when the field is undefined.
MkEvent(id, title, hasRsvps, rsvps) ==
    [id |-> id, title |-> title, hasRsvps |-> hasRsvps, rsvps |-> rsvps]

MkRsvp(userId, status) == [userId |-> userId, status |-> status]

\* Payload of POST /events, PUT /events/:id, PUT /events/:id/approve and of
\* EVENT_CREATED / EVENT_UPDATED / EVENT_APPROVED: the entity with its
\* organizer and no `rsvps` field.
WritePayloads == {MkEvent(i, t, FALSE, <<>>) : i \in EventIds, t \in Titles}

\* Array.prototype.findIndex(e => e.id === id): first index, 0 for -1.
FindIndexById(evs, id) ==
    IF \E i \in 1..Len(evs) : evs[i].id = id
    THEN CHOOSE i \in 1..Len(evs) :
            /\ evs[i].id = id
            /\ \A j \in 1..(i - 1) : evs[j].id # id
    ELSE 0

\* Array.prototype.findIndex(r => r.userId === userId) on an RSVP list.
FindIndexByUser(rsvps, userId) ==
    IF \E i \in 1..Len(rsvps) : rsvps[i].userId = userId
    THEN CHOOSE i \in 1..Len(rsvps) :
            /\ rsvps[i].userId = userId
            /\ \A j \in 1..(i - 1) : rsvps[j].userId # userId
    ELSE 0

\* Mutant of FilterOutId: the predicate inverted (=== for !==).
RECURSIVE FilterKeepId(_, _)
FilterKeepId(evs, id) ==
    IF evs = <<>> THEN <<>>
    ELSE IF Head(evs).id # id THEN FilterKeepId(Tail(evs), id)
         ELSE <<Head(evs)>> \o FilterKeepId(Tail(evs), id)

\* Array.prototype.filter
RECURSIVE FilterOutId(_, _)
FilterOutId(evs, id) ==
    IF evs = <<>> THEN <<>>
    ELSE IF Head(evs).id = id THEN FilterOutId(Tail(evs), id)
         ELSE <<Head(evs)>> \o FilterOutId(Tail(evs), id)

RECURSIVE FilterOutUser(_, _)
FilterOutUser(rsvps, userId) ==
    IF rsvps = <<>> THEN <<>>
    ELSE IF Head(rsvps).userId = userId THEN FilterOutUser(Tail(rsvps), userId)
         ELSE <<Head(rsvps)>> \o FilterOutUser(Tail(rsvps), userId)

\* events.value.unshift(e)
Unshift(evs, e) == <<e>> \o evs

\* events.value.splice(index, 1, e)
SpliceReplace(evs, index, e) == [evs EXCEPT ![index] = e]

\* Mutant of InsertIfAbsent: the `exists` test dropped.
InsertAlways(evs, e) == Unshift(evs, e)

\* `if (!exists) events.value.unshift(e)`: createEvent and EVENT_CREATED.
InsertIfAbsent(evs, e) ==
    IF FindIndexById(evs, e.id) = 0 THEN Unshift(evs, e) ELSE evs

\* `if (index !== -1) events.value.splice(index, 1, e)`: the optimistic
\* updateEvent / approveEvent, which do nothing when the id is absent.
ReplaceIfPresent(evs, eventId, e) ==
    LET index == FindIndexById(evs, eventId)
    IN IF index # 0 THEN SpliceReplace(evs, index, e) ELSE evs

\* Mutant of ReplaceOrInsert: the else branch (unshift when absent) dropped.
ReplaceOnly(evs, e) == ReplaceIfPresent(evs, e.id, e)

\* EVENT_UPDATED / EVENT_APPROVED: replace in place, else unshift.
ReplaceOrInsert(evs, e) ==
    LET index == FindIndexById(evs, e.id)
    IN IF index # 0 THEN SpliceReplace(evs, index, e) ELSE Unshift(evs, e)

\* Mutant of UpsertRsvpList: the findIndex test dropped, always push.
PushRsvp(rsvps, userId, rsvp) == Append(rsvps, rsvp)

\* The upsert of one RSVP in a list: replace the user's entry or push.
UpsertRsvpList(rsvps, userId, rsvp) ==
    LET existingIndex == FindIndexByUser(rsvps, userId)
    IN IF existingIndex # 0 THEN [rsvps EXCEPT ![existingIndex] = rsvp]
       ELSE Append(rsvps, rsvp)

\* `const event = events.value.find(...)`; `if (event) { if (!event.rsvps)
\* event.rsvps = []; ...upsert... }`: rsvpToEvent and RSVP_CREATED/UPDATED.
UpsertRsvp(evs, eventId, userId, rsvp) ==
    LET index == FindIndexById(evs, eventId)
    IN IF index = 0 THEN evs
       ELSE LET ev == evs[index]
                cur == IF ev.hasRsvps THEN ev.rsvps ELSE <<>>
            IN [evs EXCEPT ![index] =
                    [ev EXCEPT !.hasRsvps = TRUE,
                               !.rsvps = UpsertRsvpList(cur, userId, rsvp)]]

\* RSVP_DELETED: `if (event && event.rsvps) event.rsvps = filter(...)`.
RemoveRsvp(evs, eventId, userId) ==
    LET index == FindIndexById(evs, eventId)
    IN IF index = 0 \/ ~evs[index].hasRsvps THEN evs
       ELSE [evs EXCEPT ![index].rsvps = FilterOutUser(@, userId)]

\* A parsed frame as handleWebSocketMessage reads it.
MkMessage(type, eventId, userId, event, rsvp) ==
    [type |-> type, eventId |-> eventId, userId |-> userId,
     event |-> event, rsvp |-> rsvp]

\* handleWebSocketMessage: the mirror after the switch on message.type.
HandleWebSocketMessage(evs, m) ==
    CASE m.type = "EVENT_CREATED" ->
            IF m.event # NoEvent THEN InsertIfAbsent(evs, m.event) ELSE evs
      [] m.type \in {"EVENT_UPDATED", "EVENT_APPROVED"} ->
            IF m.event # NoEvent THEN ReplaceOrInsert(evs, m.event) ELSE evs
      [] m.type = "EVENT_DELETED" -> FilterOutId(evs, m.eventId)
      [] m.type \in {"RSVP_CREATED", "RSVP_UPDATED"} ->
            IF m.rsvp # NoRsvp
            THEN UpsertRsvp(evs, m.eventId, m.userId, m.rsvp)
            ELSE evs
      [] m.type = "RSVP_DELETED" -> RemoveRsvp(evs, m.eventId, m.userId)
      [] OTHER -> evs

(***************************************************************************)
(* A frame is the text of one message event.  The server writes            *)
(* JSON.stringify(m); text that is not JSON is modelled as the text of a   *)
(* message cut short.  JSON.parse gives the message back for the first and *)
(* throws for the second.                                                  *)
(***************************************************************************)
JsonStringify(m) == [json |-> TRUE, body |-> m]

CutShort(m) == [json |-> FALSE, body |-> m]

JsonParse(frame) ==
    IF frame.json
    THEN [threw |-> FALSE, value |-> frame.body]
    ELSE [threw |-> TRUE, value |-> "SyntaxError"]

\* A receive path that repaired the text instead of rejecting it.
OnMessageLenient(evs, frame) == HandleWebSocketMessage(evs, frame.body)

\* ws.onmessage of the store: `try { handleWebSocketMessage(JSON.parse(
\* event.data)) } catch (err) { console.error(...) }`.
OnMessage(evs, frame) ==
    LET parsed == JsonParse(frame)
    IN  IF parsed.threw THEN evs
        ELSE HandleWebSocketMessage(evs, parsed.value)

\* A Map that kept the value of a key's first insertion.
FirstWithId(list, id) ==
    list[CHOOSE i \in 1..Len(list) :
           /\ list[i].id = id
           /\ \A j \in 1..(i - 1) : list[j].id # id]

\* new Map(fetched.map(e => [e.id, e])).values(): a Map keeps the position
\* of a key's first insertion and the value of its last one.
RECURSIVE LastWithId(_, _)
LastWithId(list, id) ==
    IF list[Len(list)].id = id THEN list[Len(list)]
    ELSE LastWithId(SubSeq(list, 1, Len(list) - 1), id)

RECURSIVE UniqueById(_, _)
UniqueById(list, whole) ==
    IF list = <<>> THEN <<>>
    ELSE <<LastWithId(whole, Head(list).id)>>
         \o UniqueById(FilterOutId(Tail(list), Head(list).id), whole)

UniqueEvents(fetched) == UniqueById(fetched, fetched)

(***************************************************************************)
(* Events store: the write paths of the mirror.  Each `async` action of    *)
(* the store awaits its REST call and then runs its continuation without   *)
(* suspension, so one model action is the continuation applied to the      *)
(* response it was given.                                                  *)
(***************************************************************************)
MkLast(op, event, eventId, userId, rsvp, fetched) ==
    [op |-> op, event |-> event, eventId |-> eventId, userId |-> userId,
     rsvp |-> rsvp, fetched |-> fetched]

NoLast == MkLast("none", NoEvent, 0, 0, NoRsvp, <<>>)

\* The mirror at construction: `ref<Event[]>([])`.
StoreIdle ==
    /\ events = <<>>
    /\ pre = <<>>
    /\ last = NoLast

\* fetchEvents, success path: `events.value = uniqueEvents`.
\* fetchedEvents is the approved list followed, for an admin, by the
\* pending list.
FetchEventsResume(fetchedEvents) ==
    /\ events' = UniqueEvents(fetchedEvents)
    /\ pre' = events
    /\ last' = MkLast("fetchEvents", NoEvent, 0, 0, NoRsvp, fetchedEvents)

fetchEvents(fetchedEvents) ==
    /\ FetchEventsResume(fetchedEvents)
    /\ UNCHANGED notStore

\* createEvent, success path, with response.data.event = newEvent.
createEvent(newEvent) ==
    /\ events' = InsertIfAbsent(events, newEvent)
    /\ pre' = events
    /\ last' = MkLast("createEvent", newEvent, newEvent.id, 0, NoRsvp, <<>>)
    /\ UNCHANGED notStore

\* updateEvent(eventId, ...), success path; the server answers with the
\* entity it updated, whose id is eventId.
updateEvent(updatedEvent) ==
    /\ events' = ReplaceIfPresent(events, updatedEvent.id, updatedEvent)
    /\ pre' = events
    /\ last' = MkLast("updateEvent", updatedEvent, updatedEvent.id, 0,
                      NoRsvp, <<>>)
    /\ UNCHANGED notStore

\* deleteEvent(eventId), success path.
deleteEvent(eventId) ==
    /\ events' = FilterOutId(events, eventId)
    /\ pre' = events
    /\ last' = MkLast("deleteEvent", NoEvent, eventId, 0, NoRsvp, <<>>)
    /\ UNCHANGED notStore

\* approveEvent(eventId), success path.
approveEvent(approvedEvent) ==
    /\ events' = ReplaceIfPresent(events, approvedEvent.id, approvedEvent)
    /\ pre' = events
    /\ last' = MkLast("approveEvent", approvedEvent, approvedEvent.id, 0,
                      NoRsvp, <<>>)
    /\ UNCHANGED notStore

\* rsvpToEvent(eventId, status), success path, with response.data.rsvp.
rsvpToEvent(eventId, rsvp) ==
    /\ events' = UpsertRsvp(events, eventId, rsvp.userId, rsvp)
    /\ pre' = events
    /\ last' = MkLast("rsvpToEvent", NoEvent, eventId, rsvp.userId, rsvp, <<>>)
    /\ UNCHANGED notStore

\* ws.onmessage with a frame that parses to m.
LastOf(frame) ==
    IF frame.json
    THEN MkLast(frame.body.type, frame.body.event, frame.body.eventId,
                frame.body.userId, frame.body.rsvp, <<>>)
    ELSE MkLast("NOT_JSON", NoEvent, 0, 0, NoRsvp, <<>>)

onmessage(frame) ==
    /\ events' = OnMessage(events, frame)
    /\ pre' = events
    /\ last' = LastOf(frame)
    /\ UNCHANGED notStore

(***************************************************************************)
(* The frames the server broadcasts (controllers/event.controller.ts and   *)
(* controllers/rsvp.controller.ts): an EVENT_* frame carries the entity    *)
(* whose id is data.eventId (EVENT_DELETED carries the id alone), an       *)
(* RSVP_CREATED / RSVP_UPDATED frame carries the RSVP of data.userId.      *)
(***************************************************************************)
EventMessages ==
    {MkMessage(t, e.id, 0, e, NoRsvp) :
        t \in {"EVENT_CREATED", "EVENT_UPDATED", "EVENT_APPROVED"},
        e \in WritePayloads}
    \cup {MkMessage("EVENT_DELETED", i, 0, NoEvent, NoRsvp) : i \in EventIds}

\* GET /events and GET /events/pending include `rsvps`.
FetchPayloads == {MkEvent(i, t, TRUE, <<>>) : i \in EventIds, t \in Titles}

RECURSIVE SeqsUpTo(_, _)
SeqsUpTo(S, n) ==
    IF n = 0 THEN {<<>>}
    ELSE LET shorter == SeqsUpTo(S, n - 1)
         IN shorter \cup {Append(q, x) : q \in shorter, x \in S}

FetchLists == SeqsUpTo(FetchPayloads, MaxFetch)

MirrorInit ==
    /\ StoreIdle
    /\ ConnIdle
    /\ SrvIdle
    /\ CtlIdle
    /\ SvcIdle
    /\ NetIdle
    /\ ViewIdle

MirrorNext ==
    \/ \E fetchedEvents \in FetchLists : fetchEvents(fetchedEvents)
    \/ \E e \in WritePayloads : createEvent(e)
    \/ \E e \in WritePayloads : updateEvent(e)
    \/ \E i \in EventIds : deleteEvent(i)
    \/ \E e \in WritePayloads : approveEvent(e)
    \/ \E m \in EventMessages : onmessage(JsonStringify(m))

SpecMirror == MirrorInit /\ [][MirrorNext]_vars

(***************************************************************************)
(* Claims about the mirror.                                                *)
(***************************************************************************)
IdsOf(evs) == {evs[i].id : i \in 1..Len(evs)}

CountId(evs, id) == Cardinality({i \in 1..Len(evs) : evs[i].id = id})

\* C1: after any interleaving of snapshot replacements, optimistic writes
\* and broadcast applications the mirror holds at most one entry per event
\* id; after an optimistic insert of X or a broadcast EVENT_CREATED for X,
\* whichever came second, exactly one entry has id X.
C1_OneEntryPerId ==
    /\ \A i, j \in 1..Len(events) : i # j => events[i].id # events[j].id
    /\ last.op \in {"createEvent", "EVENT_CREATED"}
        => CountId(events, last.eventId) = 1

\* C1 witness: EVENT_CREATED for X was applied to a mirror that already
\* held X (the optimistic insert came first) beside another event.
C1_Witness ==
    /\ last.op = "EVENT_CREATED"
    /\ last.eventId \in IdsOf(pre)
    /\ Len(pre) = 2
    /\ CountId(events, last.eventId) = 1

\* C11: after a successful fetchEvents() the mirror holds exactly the ids of
\* the fetched list, one entry per id, each entry being the last occurrence
\* of its id in the fetched list; an entry of the previous mirror whose id
\* is not in the fetched list is gone.
C11_FetchReplacesWithLastOccurrences ==
    last.op = "fetchEvents" =>
        LET f == last.fetched
        IN  /\ IdsOf(events) = IdsOf(f)
            /\ \A id \in IdsOf(f) : CountId(events, id) = 1
            /\ \A i \in 1..Len(events) :
                 \E k \in 1..Len(f) :
                    /\ events[i] = f[k]
                    /\ \A j \in (k + 1)..Len(f) : f[j].id # f[k].id
            /\ \A i \in 1..Len(pre) :
                 pre[i].id \notin IdsOf(f) => pre[i].id \notin IdsOf(events)

\* C11 witness: the fetched list held one id twice with different
\* contents, the previous mirror held another id, and the mirror is now
\* the second occurrence alone.
C11_Witness ==
    /\ last.op = "fetchEvents"
    /\ Len(last.fetched) = 2
    /\ last.fetched[1].id = last.fetched[2].id
    /\ last.fetched[1] # last.fetched[2]
    /\ \E i \in 1..Len(pre) : pre[i].id # last.fetched[1].id
    /\ events = <<last.fetched[2]>>

\* C8: EVENT_UPDATED / EVENT_APPROVED carrying E replaces the entry with
\* E's id in place (same position, the other entries and the length
\* unchanged) when the id is present, and puts E at the front of the
\* unchanged mirror when it is absent.
C8_UpdateReplacesOrInserts ==
    last.op \in {"EVENT_UPDATED", "EVENT_APPROVED"} =>
        IF last.event.id \in IdsOf(pre)
        THEN /\ Len(events) = Len(pre)
             /\ \A i \in 1..Len(pre) :
                    events[i] = IF pre[i].id = last.event.id
                                THEN last.event ELSE pre[i]
        ELSE /\ Len(events) = Len(pre) + 1
             /\ events[1] = last.event
             /\ \A i \in 1..Len(pre) : events[i + 1] = pre[i]

\* C8 witness: an EVENT_UPDATED for an id the mirror had missed was applied
\* to a non-empty mirror and the event is now held, at the front.
C8_Witness ==
    /\ last.op = "EVENT_UPDATED"
    /\ pre # <<>>
    /\ last.event.id \notin IdsOf(pre)
    /\ events[1] = last.event

\* C9: after EVENT_DELETED for X the mirror holds no X and every other entry
\* in its place; when X was absent the mirror is unchanged; applying the
\* same EVENT_DELETED again changes nothing.
C9_DeleteRemovesAndIsIdempotent ==
    last.op = "EVENT_DELETED" =>
        LET X == last.eventId
            del == MkMessage("EVENT_DELETED", X, 0, NoEvent, NoRsvp)
        IN /\ X \notin IdsOf(events)
           /\ X \notin IdsOf(pre) => events = pre
           /\ \A i \in 1..Len(pre) : pre[i].id = X =>
                events = SubSeq(pre, 1, i - 1) \o SubSeq(pre, i + 1, Len(pre))
           /\ HandleWebSocketMessage(events, del) = events

\* C9 witness: EVENT_DELETED for X was applied to a mirror that held X and
\* another event, which is still held.
C9_Witness ==
    /\ last.op = "EVENT_DELETED"
    /\ last.eventId \in IdsOf(pre)
    /\ Len(pre) = 2
    /\ Len(events) = 1

(***************************************************************************)
(* The nested RSVP lists of the mirror.  The mirror starts as the event    *)
(* level paths leave it: some of two events, each with an empty `rsvps`    *)
(* (fetched) or none (created or updated).  The RSVP paths find an event   *)
(* by id and never move it, so one order of the two is drawn.              *)
(***************************************************************************)
RsvpEventIds == {1, 2}

RsvpMessages ==
    {MkMessage(t, i, u, NoEvent, MkRsvp(u, st)) :
        t \in {"RSVP_CREATED", "RSVP_UPDATED"},
        i \in RsvpEventIds, u \in UserIds, st \in Statuses}
    \cup {MkMessage("RSVP_DELETED", i, u, NoEvent, NoRsvp) :
            i \in RsvpEventIds, u \in UserIds}

RsvpInitEvents == {MkEvent(i, "t1", h, <<>>) : i \in RsvpEventIds, h \in BOOLEAN}

RsvpInit ==
    /\ events \in {q \in SeqsUpTo(RsvpInitEvents, 2) :
                    \A i, j \in 1..Len(q) : i < j => q[i].id < q[j].id}
    /\ pre = events
    /\ last = NoLast
    /\ ConnIdle
    /\ SrvIdle
    /\ CtlIdle
    /\ SvcIdle
    /\ NetIdle
    /\ ViewIdle

RsvpNext ==
    \/ \E m \in RsvpMessages : onmessage(JsonStringify(m))
    \/ \E i \in RsvpEventIds, u \in UserIds, st \in Statuses :
            rsvpToEvent(i, MkRsvp(u, st))

SpecRsvp == RsvpInit /\ [][RsvpNext]_vars

\* The RSVP list of an event as the code reads it (`event.rsvps || []`).
RsvpsOf(ev) == IF ev.hasRsvps THEN ev.rsvps ELSE <<>>

CountUser(rsvps, u) == Cardinality({k \in 1..Len(rsvps) : rsvps[k].userId = u})

\* The list `after` is `before` with the entry of user u replaced by r in
\* place, or with r appended when u had no entry.
IsUpsertOf(after, before, u, r) ==
    IF CountUser(before, u) > 0
    THEN /\ Len(after) = Len(before)
         /\ \A k \in 1..Len(before) :
                after[k] = IF before[k].userId = u THEN r ELSE before[k]
    ELSE after = Append(before, r)

\* The list `after` is `before` without the entry of user u.
IsRemovalOf(after, before, u) ==
    /\ CountUser(after, u) = 0
    /\ CountUser(before, u) = 0 => after = before
    /\ \A k \in 1..Len(before) : before[k].userId = u =>
            after = SubSeq(before, 1, k - 1) \o SubSeq(before, k + 1, Len(before))

\* C10: RSVP_CREATED / RSVP_UPDATED (and rsvpToEvent) for (eventId, userId)
\* leave exactly one entry of that user in the list of that event, replaced
\* in place or appended; RSVP_DELETED removes the user's entry; no other
\* event changes; the message is a no-op when the event is not in the
\* mirror; and every event always holds at most one RSVP per user.
C10_RsvpUpsertRemove ==
    /\ \A i \in 1..Len(events) : \A u \in UserIds :
            CountUser(RsvpsOf(events[i]), u) <= 1
    /\ last.op \in {"RSVP_CREATED", "RSVP_UPDATED", "RSVP_DELETED", "rsvpToEvent"} =>
        /\ Len(events) = Len(pre)
        /\ \A i \in 1..Len(pre) :
            /\ events[i].id = pre[i].id
            /\ events[i].title = pre[i].title
            /\ pre[i].id # last.eventId => events[i] = pre[i]
            /\ (pre[i].id = last.eventId /\ last.op # "RSVP_DELETED") =>
                /\ events[i].hasRsvps
                /\ CountUser(events[i].rsvps, last.userId) = 1
                /\ IsUpsertOf(events[i].rsvps, RsvpsOf(pre[i]),
                              last.userId, last.rsvp)
            /\ (pre[i].id = last.eventId /\ last.op = "RSVP_DELETED") =>
                /\ events[i].hasRsvps = pre[i].hasRsvps
                /\ IsRemovalOf(events[i].rsvps, pre[i].rsvps, last.userId)

\* C10 witness: RSVP_UPDATED replaced, in a list of two, the entry of a
\* user whose status differed, while the other event kept its own list.
C10_Witness ==
    /\ last.op = "RSVP_UPDATED"
    /\ Len(events) = 2
    /\ \E i \in 1..2 :
        /\ pre[i].id = last.eventId
        /\ Len(pre[i].rsvps) = 2
        /\ \E k \in 1..2 : /\ pre[i].rsvps[k].userId = last.userId
                           /\ pre[i].rsvps[k] # last.rsvp
                           /\ events[i].rsvps[k] = last.rsvp
        /\ \E j \in 1..2 : j # i /\ Len(events[j].rsvps) > 0

(***************************************************************************)
(* Event level replacement over a mirror with nested RSVP lists: the       *)
(* RSVP paths fill the lists, the update and approval paths replace the    *)
(* entity by the payload of PUT /events/:id and PUT /events/:id/approve.   *)
(***************************************************************************)
ReplaceMessages ==
    {MkMessage(t, e.id, 0, e, NoRsvp) :
        t \in {"EVENT_UPDATED", "EVENT_APPROVED"}, e \in WritePayloads}

NestedNext ==
    \/ \E m \in RsvpMessages : onmessage(JsonStringify(m))
    \/ \E m \in ReplaceMessages : onmessage(JsonStringify(m))
    \/ \E e \in WritePayloads : updateEvent(e)
    \/ \E e \in WritePayloads : approveEvent(e)

SpecNested == RsvpInit /\ [][NestedNext]_vars

\* `event.rsvps` of the event with this id, the empty list when absent.
NestedRsvps(evs, id) ==
    LET index == FindIndexById(evs, id)
    IN IF index = 0 THEN <<>> ELSE evs[index].rsvps

\* C27: an EVENT_UPDATED or EVENT_APPROVED frame, or the optimistic
\* updateEvent or approveEvent, applied for an event the mirror holds leaves
\* the nested RSVP list of that event as it was.
C27_ReplacementKeepsRsvps ==
    (/\ last.op \in {"EVENT_UPDATED", "EVENT_APPROVED",
                     "updateEvent", "approveEvent"}
     /\ last.eventId \in IdsOf(pre))
        => NestedRsvps(events, last.eventId) = NestedRsvps(pre, last.eventId)

(***************************************************************************)
(* Events store: the connection manager.                                   *)
(*                                                                         *)
(* The handlers installed by connectWebSocket close over the store's refs  *)
(* only, never over their own socket, so what a socket contributes is its  *)
(* readyState and the events the browser still owes it.  `ws` is the       *)
(* readyState of the socket ws.value refers to; `stale` counts the sockets *)
(* the store called close() on while they were CONNECTING or OPEN, each of *)
(* which the browser will deliver one close event to.  The browser         *)
(* delivers events as tasks of the event loop, after the handler that      *)
(* called close() has returned.  The endpoint URL is well formed, so       *)
(* `new WebSocket` does not throw.                                         *)
(***************************************************************************)
wsMaxRetries == 10

\* Bound: sockets created in one run.
MaxSockets == 12

Min(a, b) == IF a < b THEN a ELSE b

\* Mutant of RetryDelay: the cap of Math.min dropped.
RetryDelayUncapped(count) == 2000 * (2 ^ (count - 1))

\* Math.min(2000 * Math.pow(2, wsRetryCount - 1), 10000)
RetryDelay(count) == Min(2000 * (2 ^ (count - 1)), 10000)

\* ws.value.close(): a CONNECTING or OPEN socket starts closing and owes a
\* close event; close() on a closed socket does nothing.
OwesClose(state) == IF state \in {"connecting", "open"} THEN 1 ELSE 0

\* The body of connectWebSocket().
ConnectWebSocket ==
    IF wsRetryCount >= wsMaxRetries
    THEN UNCHANGED <<ws, stale, created>>
    ELSE /\ stale' = stale + OwesClose(ws)
         /\ ws' = "connecting"
         /\ created' = created + 1

\* One call of connectWebSocket() by the application.
ConnectWebSocketCall ==
    /\ created < MaxSockets
    /\ ConnectWebSocket
    /\ disconnected' = FALSE
    /\ lastCx' = CASE ws = "open" -> "connectWhileOpen"
                  [] ws # "open" /\ wsRetryCount >= wsMaxRetries /\ ~timerArmed
                       -> "connectAfterGiveUp"
                  [] OTHER -> "connectWebSocket"
    /\ UNCHANGED <<wsRetryCount, wsRetryTimeout, timerArmed, retryDelay,
                   closes, staleCloses>>

\* connectWebSocket() called by the application (Home.vue onMounted).
connectWebSocket ==
    /\ ConnectWebSocketCall
    /\ UNCHANGED notConn

\* The retry timer fires: `() => { connectWebSocket() }`.
retryTimeout ==
    /\ timerArmed
    /\ created < MaxSockets
    /\ timerArmed' = FALSE
    /\ ConnectWebSocket
    /\ lastCx' = "retryTimeout"
    /\ UNCHANGED <<wsRetryCount, wsRetryTimeout, retryDelay, closes,
                   staleCloses, disconnected>>
    /\ UNCHANGED notConn

\* ws.onopen of the current socket.
onopen ==
    /\ ws = "connecting"
    /\ ws' = "open"
    /\ wsRetryCount' = 0
    /\ closes' = 0
    /\ staleCloses' = 0
    /\ lastCx' = "onopen"
    /\ UNCHANGED <<stale, wsRetryTimeout, timerArmed, retryDelay, created,
                   disconnected>>
    /\ UNCHANGED notConn

\* The body of ws.onclose.
OnClose ==
    /\ closes' = closes + 1
    /\ lastCx' = "onclose"
    /\ IF wsRetryCount < wsMaxRetries
       THEN /\ wsRetryCount' = wsRetryCount + 1
            /\ retryDelay' = RetryDelay(wsRetryCount + 1)
            /\ wsRetryTimeout' = TRUE
            /\ timerArmed' = TRUE
       ELSE /\ timerArmed' = IF wsRetryTimeout THEN FALSE ELSE timerArmed
            /\ UNCHANGED <<wsRetryCount, retryDelay, wsRetryTimeout>>

\* The socket ws.value refers to fails to connect (error, then close) or is
\* closed by the peer or the network: its onclose runs.
oncloseCurrent ==
    /\ ws \in {"connecting", "open"}
    /\ ws' = "closed"
    /\ OnClose
    /\ UNCHANGED <<stale, created, staleCloses, disconnected>>
    /\ UNCHANGED notConn

\* The close event of a socket the store itself closed (in
\* connectWebSocket or disconnectWebSocket) is delivered: its onclose runs.
oncloseStale ==
    /\ stale > 0
    /\ stale' = stale - 1
    /\ staleCloses' = staleCloses + 1
    /\ OnClose
    /\ UNCHANGED <<ws, created, disconnected>>
    /\ UNCHANGED notConn

\* One call of disconnectWebSocket().
DisconnectWebSocketCall ==
    /\ timerArmed' = FALSE
    /\ wsRetryTimeout' = FALSE
    /\ wsRetryCount' = 0
    /\ stale' = stale + OwesClose(ws)
    /\ ws' = "null"
    /\ closes' = 0
    /\ staleCloses' = 0
    /\ disconnected' = TRUE
    /\ lastCx' = "disconnectWebSocket"
    /\ UNCHANGED <<retryDelay, created>>

\* disconnectWebSocket()
disconnectWebSocket ==
    /\ DisconnectWebSocketCall
    /\ UNCHANGED notConn

ConnInit ==
    /\ StoreIdle
    /\ ConnIdle
    /\ SrvIdle
    /\ CtlIdle
    /\ SvcIdle
    /\ NetIdle
    /\ ViewIdle

ConnNext ==
    \/ connectWebSocket
    \/ retryTimeout
    \/ onopen
    \/ oncloseCurrent
    \/ oncloseStale
    \/ disconnectWebSocket

SpecConn == ConnInit /\ [][ConnNext]_vars

(***************************************************************************)
(* Claims about the connection manager of the events store.                *)
(***************************************************************************)
\* C2: once disconnectWebSocket() has returned, and until connectWebSocket()
\* is called again, no reconnect timer is pending and the store holds no
\* transport, also after the close event of the socket it closed has been
\* delivered.
C2_DisconnectedStaysDisconnected ==
    disconnected => (~timerArmed /\ ws = "null")

\* The delays of the spec's backoff sequence: 2000, 4000, 8000, then the
\* cap of 10000.
BackoffDelay(n) ==
    CASE n = 1 -> 2000
      [] n = 2 -> 4000
      [] n = 3 -> 8000
      [] OTHER -> 10000

\* C14, for the events store: connectWebSocket() called while the current
\* socket is OPEN is a no-op; the socket ws.value refers to is still that
\* open socket.
C14_ConnectWhileOpenIsNoOp ==
    lastCx = "connectWhileOpen" => ws = "open"

\* C15, for the events store: connectWebSocket() called by the application
\* in the give-up state (ceiling reached, no timer pending), with no
\* disconnectWebSocket() before it, starts a connection attempt with the
\* retry counter starting fresh.
C15_ManualConnectAfterGiveUp ==
    lastCx = "connectAfterGiveUp" =>
        (ws = "connecting" /\ wsRetryCount < wsMaxRetries)

SeqToSet(q) == {q[i] : i \in 1..Len(q)}

\* Set.prototype.add: insertion order, no duplicate.
SetAdd(q, c) == IF c \in SeqToSet(q) THEN q ELSE Append(q, c)

\* Set.prototype.delete of every member of D.
SetDelete(q, D) == SelectSeq(q, LAMBDA c : c \notin D)

\* setServerInstance(app.server) then startHeartbeat(30000), as
\* startServer() runs them once listen() succeeded.
Started ==
    /\ serverInstance = "server"
    /\ heartbeatIntervalId = TRUE

\* open(ws): addConnection (ws._isAlive = true, the pong listener when
\* ws.on exists, connections.add), subscribe to both topics, mark alive,
\* greet, set the per-connection ping interval.  Connections are numbered
\* in the order the runtime accepts them.
open(c) ==
    /\ readyState[c] = "none"
    /\ \A d \in 1..(c - 1) : readyState[d] # "none"
    /\ readyState' = [readyState EXCEPT ![c] = "open"]
    /\ connections' = SetAdd(connections, c)
    /\ isAlive' = [isAlive EXCEPT ![c] = "true"]
    /\ topics' = [events |-> topics.events \cup {c},
                  rsvps |-> topics.rsvps \cup {c}]
    /\ hbIntervals' = hbIntervals \cup {c}
    /\ lastSrv' = NoStep
    /\ UNCHANGED <<serverInstance, heartbeatIntervalId, caps, sendThrows,
                   pingOut, hb>>
    /\ UNCHANGED notSrv

\* A teardown that forgot `ws.unsubscribe("rsvps")`.
CloseEventsOnly(D) == [events |-> topics.events \ D, rsvps |-> topics.rsvps]

\* What the close handler leaves of the topics, the live set and the
\* per-connection intervals when the connections of D are closed.
CloseTopics(D) == [events |-> topics.events \ D, rsvps |-> topics.rsvps \ D]

\* close(ws): the transport of c closes (peer-initiated here); unsubscribe
\* from both topics, removeConnection, clear the per-connection interval.
close(c) ==
    /\ readyState[c] \in {"open", "closing"}
    /\ readyState' = [readyState EXCEPT ![c] = "closed"]
    /\ topics' = CloseTopics({c})
    /\ connections' = SetDelete(connections, {c})
    /\ hbIntervals' = hbIntervals \ {c}
    /\ pingOut' = pingOut \ {c}
    /\ lastSrv' = NoStep
    /\ UNCHANGED <<serverInstance, heartbeatIntervalId, caps, sendThrows,
                   isAlive, hb>>
    /\ UNCHANGED notSrv

MessageTypes == {"PONG", "PING", "OTHER"}

\* Text that is not JSON: `parsed` stays null, and the JSON.parse of the
\* echo branch throws into its catch before anything is sent.
FrameKinds == MessageTypes \cup {"NOT_JSON"}

\* message(ws, message): a PONG marks the connection alive; a PING is
\* answered with a PONG and marks it alive; anything else is echoed.
message(c, type) ==
    /\ readyState[c] = "open"
    /\ isAlive' = IF type \in {"PONG", "PING"}
                  THEN [isAlive EXCEPT ![c] = "true"]
                  ELSE isAlive
    /\ hb' = IF type \in {"PONG", "PING"}
             THEN [hb EXCEPT !.acked = @ \cup {c}]
             ELSE hb
    /\ lastSrv' = IF type = "NOT_JSON" THEN [NoStep EXCEPT !.op = "NOT_JSON"]
                  ELSE NoStep
    /\ UNCHANGED <<serverInstance, heartbeatIntervalId, caps, readyState,
                   sendThrows, connections, topics, hbIntervals, pingOut>>
    /\ UNCHANGED notSrv

\* The peer answers a native ping with a native pong.  The listener that
\* addConnection attached, if ws.on exists, marks the connection alive;
\* the route declares no pong handler.
pong(c) ==
    /\ readyState[c] = "open"
    /\ c \in pingOut
    /\ pingOut' = pingOut \ {c}
    /\ isAlive' = IF caps.on THEN [isAlive EXCEPT ![c] = "true"] ELSE isAlive
    /\ hb' = [hb EXCEPT !.acked = @ \cup {c}]
    /\ lastSrv' = NoStep
    /\ UNCHANGED <<serverInstance, heartbeatIntervalId, caps, readyState,
                   sendThrows, connections, topics, hbIntervals>>
    /\ UNCHANGED notSrv

\* The per-connection interval of open(ws): a native ping when ws.ping
\* exists, else an in-band PING; errors ignored; _isAlive untouched.  Only
\* the native ping leaves a trace on the server (a pong may answer it); the
\* in-band PING, and a ping while one is still unanswered, change nothing.
connectionPing(c) ==
    /\ c \in hbIntervals
    /\ c \notin pingOut
    /\ caps.ping
    /\ readyState[c] = "open"
    /\ pingOut' = pingOut \cup {c}
    /\ lastSrv' = NoStep
    /\ UNCHANGED <<serverInstance, heartbeatIntervalId, caps, readyState,
                   sendThrows, connections, isAlive, topics, hbIntervals,
                   hb>>
    /\ UNCHANGED notSrv

\* The heartbeat's test, reading a flag that is never false.
DeadIfUnset(c) == isAlive[c] = "undefined"

\* `ws._isAlive === false` in the heartbeat callback.
DeadAtTick(c) == isAlive[c] = "false"

\* One run of the shared heartbeat callback over `connections`.  A
\* connection found with _isAlive === false is closed (terminate() if the
\* ws has it, else close(); either way the transport closes and the close
\* handler runs) and deleted from the set.  Every other one is marked not
\* alive and probed: a native ping if ws.ping exists and does not throw
\* (pingThrew: where it throws), else an in-band PING, itself lost if
\* send() throws.
heartbeat(pingThrew) ==
    /\ heartbeatIntervalId
    /\ pingThrew \subseteq SeqToSet(connections)
    /\ caps.ping \/ pingThrew = {}
    /\ LET live == SeqToSet(connections)
           dead == {c \in live : DeadAtTick(c)}
           marked == live \ dead
           native == {c \in marked : caps.ping /\ c \notin pingThrew}
           inband == {c \in marked \ native :
                        readyState[c] = "open" /\ c \notin sendThrows}
           due == {c \in Conns : /\ readyState[c] = "open"
                                 /\ c \in hb.probed
                                 /\ c \notin hb.acked}
       IN  /\ readyState' = [c \in Conns |->
                               IF c \in dead THEN "closed" ELSE readyState[c]]
           /\ topics' = CloseTopics(dead)
           /\ connections' = SetDelete(connections, dead)
           /\ hbIntervals' = hbIntervals \ dead
           /\ isAlive' = [c \in Conns |->
                            IF c \in marked THEN "false" ELSE isAlive[c]]
           /\ pingOut' = (pingOut \cup native) \ dead
           /\ hb' = [probed |-> native \cup inband,
                     acked |-> {},
                     missed |-> hb.missed \cup due,
                     reaped |-> hb.reaped \cup dead,
                     late |-> hb.late]
    /\ lastSrv' = NoStep
    /\ UNCHANGED <<serverInstance, heartbeatIntervalId, caps, sendThrows>>
    /\ UNCHANGED notSrv

\* The fallback loop's body for one connection, without its try/catch: a
\* throwing send aborts the loop.
VisitNoCatch(acc, c) ==
    IF readyState[c] = "open"
    THEN IF c \in sendThrows
         THEN [acc EXCEPT !.threw = TRUE]
         ELSE [acc EXCEPT !.got[c] = @ + 1]
    ELSE [acc EXCEPT !.live = SetDelete(@, {c})]

\* The fallback loop's body for one connection: readyState === 1 and send
\* succeeds, one frame delivered; not open, or send throws (caught), the
\* connection is deleted from the set.
Visit(acc, c) ==
    IF readyState[c] = "open"
    THEN IF c \in sendThrows
         THEN [acc EXCEPT !.live = SetDelete(@, {c})]
         ELSE [acc EXCEPT !.got[c] = @ + 1]
    ELSE [acc EXCEPT !.live = SetDelete(@, {c})]

RECURSIVE ForEach(_, _)
\* connections.forEach over the members q still to visit.
ForEach(q, acc) ==
    IF q = <<>> \/ acc.threw
    THEN acc
    ELSE ForEach(Tail(q), Visit(acc, Head(q)))

\* A publish that reaches no subscriber.
PublishToNone(topic) ==
    [live |-> connections, got |-> [c \in Conns |-> 0], threw |-> FALSE]

\* serverInstance.publish(topic, message): the runtime delivers one frame
\* to every open subscriber of the topic.
Publish(topic) ==
    [live |-> connections,
     got |-> [c \in Conns |->
                IF c \in topics[topic] /\ readyState[c] = "open"
                THEN 1 ELSE 0],
     threw |-> FALSE]

\* The body shared by the three broadcast functions: publish when the
\* server instance has publish, else the loop over `connections`.
Broadcast(topic) ==
    IF serverInstance = "server"
    THEN Publish(topic)
    ELSE ForEach(connections,
                 [live |-> connections,
                  got |-> [c \in Conns |-> 0],
                  threw |-> FALSE])

Dispatch(op, topic) ==
    LET r == Broadcast(topic)
    IN  /\ connections' = r.live
        /\ hb' = [hb EXCEPT !.late =
                    @ \cup {c \in hb.reaped : r.got[c] > 0}]
        /\ lastSrv' = [op |-> op, pre |-> connections, got |-> r.got,
                       threw |-> r.threw]
        /\ UNCHANGED <<serverInstance, heartbeatIntervalId, caps,
                       readyState, sendThrows, isAlive, topics, hbIntervals,
                       pingOut>>

broadcastEventUpdate ==
    /\ Dispatch("broadcastEventUpdate", "events")
    /\ UNCHANGED notSrv

broadcastRsvpUpdate ==
    /\ Dispatch("broadcastRsvpUpdate", "rsvps")
    /\ UNCHANGED notSrv

broadcastMessage(topic) ==
    /\ Dispatch("broadcastMessage", topic)
    /\ UNCHANGED notSrv

\* The server once startServer() has run: any ws capabilities, no
\* connection yet.
HeartbeatInit ==
    /\ StoreIdle
    /\ ConnIdle
    /\ CtlIdle
    /\ SvcIdle
    /\ NetIdle
    /\ ViewIdle
    /\ Started
    /\ caps \in [on : BOOLEAN, ping : BOOLEAN]
    /\ readyState = [c \in Conns |-> "none"]
    /\ sendThrows = {}
    /\ connections = <<>>
    /\ isAlive = [c \in Conns |-> "undefined"]
    /\ topics = [events |-> {}, rsvps |-> {}]
    /\ hbIntervals = {}
    /\ pingOut = {}
    /\ hb = NoHb
    /\ lastSrv = NoStep

HeartbeatNext ==
    \/ \E c \in Conns : open(c)
    \/ \E c \in Conns : close(c)
    \/ \E c \in Conns, type \in MessageTypes : message(c, type)
    \/ \E c \in Conns : pong(c)
    \/ \E c \in Conns : connectionPing(c)
    \/ \E pingThrew \in SUBSET Conns : heartbeat(pingThrew)
    \/ broadcastEventUpdate
    \/ broadcastRsvpUpdate

SpecHeartbeat == HeartbeatInit /\ [][HeartbeatNext]_vars

\* C4: a connection that was probed at one heartbeat tick and gave no
\* acknowledgment before the next tick (hb.missed) was terminated at that
\* next tick, and from then on is in neither the live set nor a topic's
\* subscribers, and no later broadcast delivers a frame to it.
C4_SilentConnectionReaped ==
    \A c \in hb.missed :
        /\ c \in hb.reaped
        /\ readyState[c] = "closed"
        /\ c \notin SeqToSet(connections)
        /\ c \notin (topics.events \cup topics.rsvps)
        /\ c \notin hb.late
        /\ lastSrv.got[c] = 0

\* C4 witness: after a silent connection was reaped, a broadcast ran and
\* reached another connection.
C4_Witness ==
    /\ hb.missed # {}
    /\ hb.missed \subseteq hb.reaped
    /\ lastSrv.op = "broadcastEventUpdate"
    /\ \E d \in Conns \ hb.missed : lastSrv.got[d] = 1

\* C5: a connection that the heartbeat terminated (hb.reaped) had left a
\* probe unacknowledged until the next tick (hb.missed); that is, a
\* connection whose peer acknowledges every probe before the next tick, by
\* a native pong or by an in-band PONG or PING, is never terminated by the
\* heartbeat.
C5_AcknowledgedNeverTerminated ==
    \A c \in hb.reaped : c \in hb.missed

\* C19: with the server started, a connection is a subscriber of `events`
\* and of `rsvps` and a member of `connections` from the end of its open
\* handler until its close handler has run, and of none of them before or
\* afterwards; for a connection that is not open, the teardown steps
\* (unsubscribe from both topics, removeConnection) leave the topics and
\* `connections` as they are.
C19_SubscribedFromOpenToClose ==
    \A c \in Conns :
        /\ readyState[c] = "open" =>
              /\ c \in topics.events
              /\ c \in topics.rsvps
              /\ c \in SeqToSet(connections)
        /\ readyState[c] # "open" =>
              /\ c \notin topics.events
              /\ c \notin topics.rsvps
              /\ c \notin SeqToSet(connections)
              /\ CloseTopics({c}) = topics
              /\ SetDelete(connections, {c}) = connections

\* One connection was closed by its peer and one was terminated by the
\* heartbeat, while a third stays open and subscribed.
C19_Witness ==
    /\ \E c \in Conns : readyState[c] = "closed" /\ c \notin hb.reaped
    /\ \E c \in hb.reaped : readyState[c] = "closed"
    /\ \E c \in Conns :
          /\ readyState[c] = "open"
          /\ c \in topics.events \cap topics.rsvps
          /\ c \in SeqToSet(connections)

\* ------------------------------------------------------------------
\* The broadcast functions without a server instance (the module loaded,
\* startServer() not run): every dispatch takes the loop over
\* `connections`.
\* ------------------------------------------------------------------

\* The transport of a live connection starts closing: readyState leaves 1
\* before the close handler has run.
closing(c) ==
    /\ readyState[c] = "open"
    /\ readyState' = [readyState EXCEPT ![c] = "closing"]
    /\ lastSrv' = NoStep
    /\ UNCHANGED <<serverInstance, heartbeatIntervalId, caps, sendThrows,
                   connections, isAlive, topics, hbIntervals, pingOut, hb>>
    /\ UNCHANGED notSrv

\* The transport of a live connection breaks while readyState is still 1:
\* from now on its send() throws.
sendFails(c) ==
    /\ readyState[c] = "open"
    /\ c \notin sendThrows
    /\ sendThrows' = sendThrows \cup {c}
    /\ lastSrv' = NoStep
    /\ UNCHANGED <<serverInstance, heartbeatIntervalId, caps, readyState,
                   connections, isAlive, topics, hbIntervals, pingOut, hb>>
    /\ UNCHANGED notSrv

Topics == {"events", "rsvps"}

BroadcastInit ==
    /\ StoreIdle
    /\ ConnIdle
    /\ SrvIdle
    /\ CtlIdle
    /\ SvcIdle
    /\ NetIdle
    /\ ViewIdle

BroadcastNext ==
    \/ \E c \in Conns : open(c)
    \/ \E c \in Conns : close(c)
    \/ \E c \in Conns : closing(c)
    \/ \E c \in Conns : sendFails(c)
    \/ broadcastEventUpdate
    \/ broadcastRsvpUpdate
    \/ \E topic \in Topics : broadcastMessage(topic)

SpecBroadcast == BroadcastInit /\ [][BroadcastNext]_vars

BroadcastOps == {"broadcastEventUpdate", "broadcastRsvpUpdate",
                 "broadcastMessage"}

\* C6: a broadcast that took the loop over the live set returned without
\* throwing; every connection that was in the set, open and not throwing
\* on send, got the message exactly once and is still in the set; every
\* connection that was in the set and not open, or throwing on send, got
\* nothing and is no longer in the set.
C6_FallbackDeliversOnceAndPrunes ==
    (lastSrv.op \in BroadcastOps /\ serverInstance = "null") =>
        /\ ~lastSrv.threw
        /\ \A c \in Conns :
             IF c \in SeqToSet(lastSrv.pre)
             THEN IF readyState[c] = "open" /\ c \notin sendThrows
                  THEN lastSrv.got[c] = 1 /\ c \in SeqToSet(connections)
                  ELSE lastSrv.got[c] = 0 /\ c \notin SeqToSet(connections)
             ELSE lastSrv.got[c] = 0 /\ c \notin SeqToSet(connections)

C6_Witness ==
    /\ lastSrv.op = "broadcastRsvpUpdate"
    /\ serverInstance = "null"
    /\ \E a, b, c \in SeqToSet(lastSrv.pre) :
         /\ readyState[a] = "closing"
         /\ readyState[b] = "open" /\ b \in sendThrows
         /\ readyState[c] = "open" /\ lastSrv.got[c] = 1
         /\ a < b /\ b < c

\* ------------------------------------------------------------------
\* Controllers: controllers/event.controller.ts and rsvp.controller.ts.
\*
\* One call is followed from its entry to its return.  A call is a list
\* of awaited operations; each step of the model settles the operation
\* the call is waiting for (it resolves, or it rejects and the catch
\* block returns 500) and runs the call up to its next await or its
\* return.  The broadcast is synchronous code after the last await.
\* ------------------------------------------------------------------

createEventProgram == <<"event.create">>

updateEventProgram ==
    <<"event.findUnique", "event.update", "rsvp.findMany", "import.updated">>

deleteEventProgram ==
    <<"event.findUnique", "rsvp.findMany", "rsvp.deleteMany", "event.delete",
      "import.deleted", "import.deletedByAdmin">>

approveEventProgram == <<"event.findUnique", "event.update">>

rsvpToEventProgram == <<"event.findUnique", "rsvp.upsert">>

deleteRsvpProgram == <<"rsvp.findUnique", "rsvp.delete">>

Program(h) ==
    CASE h = "createEvent" -> createEventProgram
      [] h = "updateEvent" -> updateEventProgram
      [] h = "deleteEvent" -> deleteEventProgram
      [] h = "approveEvent" -> approveEventProgram
      [] h = "rsvpToEvent" -> rsvpToEventProgram
      [] h = "deleteRsvp" -> deleteRsvpProgram

WriteOps == {"event.create", "event.update", "event.delete",
             "rsvp.deleteMany", "rsvp.upsert", "rsvp.delete"}

\* The operations a call does not reach: updateEvent looks the attendees
\* up only `if (changes.length > 0)` and imports the email module only
\* `if (rsvps.length > 0)`; deleteEvent imports it `if (rsvps.length > 0)`
\* and `if (isAdminDeletingOrganizerEvent && event.organizer)`.
Skipped(r, op) ==
    CASE op = "rsvp.findMany" /\ r.h = "updateEvent" -> ~r.changes
      [] op = "import.updated" -> ~(r.changes /\ r.rsvps)
      [] op = "import.deleted" -> ~r.rsvps
      [] op = "import.deletedByAdmin" -> ~r.adminOther
      [] OTHER -> FALSE

\* A call that goes to its broadcast as soon as its first operation
\* resolved.
NextPcPastWrites(r, i) == Len(Program(r.h)) + 1

RECURSIVE NextPc(_, _)
\* The next operation the call awaits, from position i on; past the end
\* of the program, the call broadcasts and returns.
NextPc(r, i) ==
    IF i > Len(Program(r.h))
    THEN i
    ELSE IF Skipped(r, Program(r.h)[i]) THEN NextPc(r, i + 1) ELSE i

\* prisma.event.create gives the row an id no row has.
FreshId == CHOOSE e \in DbEventIds : dbEvents[e].state = "absent"

\* The early returns after a lookup: 404, 403, 400; 0 when none applies.
Refusal(r, op) ==
    LET row == dbEvents[r.eventId]
    IN  CASE op = "event.findUnique" /\ row.state = "absent" -> 404
          [] /\ op = "event.findUnique" /\ row.state # "absent"
             /\ r.h \in {"updateEvent", "deleteEvent"}
             /\ row.organizerId # r.userId /\ r.userRole # "ADMIN" -> 403
          [] /\ op = "event.findUnique" /\ row.state = "pending"
             /\ r.h = "rsvpToEvent" -> 400
          [] /\ op = "rsvp.findUnique"
             /\ <<r.eventId, r.userId>> \notin dbRsvps -> 404
          [] OTHER -> 0

\* What the call learns from the operation that resolved.
Resolved(r, op) ==
    [r EXCEPT
       !.eventId = IF op = "event.create" THEN FreshId ELSE @,
       !.rsvps = IF op = "rsvp.findMany"
                 THEN \E u \in Principals : <<r.eventId, u>> \in dbRsvps
                 ELSE @,
       !.adminOther = IF op = "event.findUnique" /\ r.h = "deleteEvent"
                      THEN /\ r.userRole = "ADMIN"
                           /\ dbEvents[r.eventId].organizerId # r.userId
                      ELSE @,
       !.existed = IF op = "rsvp.upsert"
                   THEN <<r.eventId, r.userId>> \in dbRsvps
                   ELSE @,
       !.commits = IF op \in WriteOps THEN @ + 1 ELSE @]

\* The event rows after the operation resolved.
EventsAfter(r, op) ==
    CASE op = "event.create" ->
           [dbEvents EXCEPT ![FreshId] =
              [state |-> "pending", organizerId |-> r.userId]]
      [] op = "event.update" /\ r.h = "approveEvent" ->
           [dbEvents EXCEPT ![r.eventId].state = "approved"]
      [] op = "event.delete" -> [dbEvents EXCEPT ![r.eventId] = NoRow]
      [] OTHER -> dbEvents

\* The RSVP rows after the operation resolved.
RsvpsAfter(r, op) ==
    CASE op = "rsvp.deleteMany" -> {x \in dbRsvps : x[1] # r.eventId}
      [] op = "rsvp.upsert" -> dbRsvps \cup {<<r.eventId, r.userId>>}
      [] op = "rsvp.delete" -> dbRsvps \ {<<r.eventId, r.userId>>}
      [] OTHER -> dbRsvps

\* The type of the message a call broadcasts; isNewRsvp is
\* `rsvp.createdAt.getTime() === new Date().getTime()`.
MessageType(h, isNewRsvp) ==
    CASE h = "createEvent" -> "EVENT_CREATED"
      [] h = "updateEvent" -> "EVENT_UPDATED"
      [] h = "deleteEvent" -> "EVENT_DELETED"
      [] h = "approveEvent" -> "EVENT_APPROVED"
      [] h = "rsvpToEvent" ->
           IF isNewRsvp THEN "RSVP_CREATED" ELSE "RSVP_UPDATED"
      [] h = "deleteRsvp" -> "RSVP_DELETED"

\* The status of a call's success result.
SuccessStatus(h, isNewRsvp) ==
    CASE h = "createEvent" -> 201
      [] h = "rsvpToEvent" -> IF isNewRsvp THEN 201 ELSE 200
      [] OTHER -> 200

\* A controller step that runs no broadcast.
SrvQuiet ==
    /\ lastSrv' = NoStep
    /\ UNCHANGED <<serverInstance, heartbeatIntervalId, caps, readyState,
                   sendThrows, connections, isAlive, topics, hbIntervals,
                   pingOut, hb>>

\* Entry of a controller function: it runs to its first await.
Call(h, eventId, userId, userRole, changes) ==
    /\ req.state \in {"idle", "done"}
    /\ req' = [NoReq EXCEPT !.h = h, !.state = "awaiting", !.pc = 1,
                            !.eventId = eventId, !.userId = userId,
                            !.userRole = userRole, !.changes = changes]
    /\ UNCHANGED <<dbEvents, dbRsvps>>
    /\ SrvQuiet
    /\ UNCHANGED notCtl

\* The awaited operation of the call settles.  Rejected: the catch block
\* returns 500.  Resolved: an early return (404, 403, 400), or the next
\* await, or, past the last one, the broadcast and the success result.
Settle(h, ok, isNewRsvp) ==
    /\ req.h = h
    /\ req.state = "awaiting"
    /\ LET op == Program(h)[req.pc]
           r == Resolved(req, op)
           refusal == Refusal(req, op)
           next == NextPc(r, req.pc + 1)
       IN  /\ isNewRsvp => (ok /\ op = "rsvp.upsert" /\ ~r.existed)
           /\ IF ~ok
              THEN /\ req' = [req EXCEPT
                                !.state = "done", !.status = 500,
                                !.failure = IF op \in {"import.updated",
                                                       "import.deleted",
                                                       "import.deletedByAdmin"}
                                            THEN "import" ELSE "persistence"]
                   /\ UNCHANGED <<dbEvents, dbRsvps>>
                   /\ SrvQuiet
              ELSE IF refusal # 0
              THEN /\ req' = [req EXCEPT !.state = "done", !.status = refusal]
                   /\ UNCHANGED <<dbEvents, dbRsvps>>
                   /\ SrvQuiet
              ELSE IF next <= Len(Program(h))
              THEN /\ req' = [r EXCEPT !.pc = next]
                   /\ dbEvents' = EventsAfter(req, op)
                   /\ dbRsvps' = RsvpsAfter(req, op)
                   /\ SrvQuiet
              ELSE /\ req' = [r EXCEPT
                                !.state = "done", !.pc = next,
                                !.sent = Append(@, MessageType(h, isNewRsvp)),
                                !.sentAt = r.commits,
                                !.status = SuccessStatus(h, isNewRsvp)]
                   /\ dbEvents' = EventsAfter(req, op)
                   /\ dbRsvps' = RsvpsAfter(req, op)
                   /\ IF h \in {"rsvpToEvent", "deleteRsvp"}
                      THEN Dispatch("broadcastRsvpUpdate", "rsvps")
                      ELSE Dispatch("broadcastEventUpdate", "events")
    /\ UNCHANGED notCtl

ControllerNames == {"createEvent", "updateEvent", "deleteEvent",
                    "approveEvent", "rsvpToEvent", "deleteRsvp"}

\* The last awaited operation of the call resolves, and then
\* serverInstance.publish(...) throws: broadcastEventUpdate and
\* broadcastRsvpUpdate call it outside any try, so the exception reaches
\* the catch block of the controller, which returns 500.
publishThrows(h) ==
    /\ req.h = h
    /\ req.state = "awaiting"
    /\ serverInstance = "server"
    /\ LET op == Program(h)[req.pc]
           r == Resolved(req, op)
       IN  /\ Refusal(req, op) = 0
           /\ NextPc(r, req.pc + 1) > Len(Program(h))
           /\ req' = [r EXCEPT !.state = "done",
                               !.pc = NextPc(r, req.pc + 1),
                               !.status = 500,
                               !.failure = "broadcast"]
           /\ dbEvents' = EventsAfter(req, op)
           /\ dbRsvps' = RsvpsAfter(req, op)
           /\ SrvQuiet
    /\ UNCHANGED notCtl

createEventRequest(userId) ==
    /\ \E e \in DbEventIds : dbEvents[e].state = "absent"
    /\ Call("createEvent", 0, userId, "none", FALSE)

createEventResume(ok) == Settle("createEvent", ok, FALSE)

updateEventRequest(eventId, userId, userRole, changes) ==
    Call("updateEvent", eventId, userId, userRole, changes)

updateEventResume(ok) == Settle("updateEvent", ok, FALSE)

deleteEventRequest(eventId, userId, userRole) ==
    Call("deleteEvent", eventId, userId, userRole, FALSE)

deleteEventResume(ok) == Settle("deleteEvent", ok, FALSE)

approveEventRequest(eventId) ==
    Call("approveEvent", eventId, "none", "none", FALSE)

approveEventResume(ok) == Settle("approveEvent", ok, FALSE)

rsvpToEventRequest(eventId, userId) ==
    Call("rsvpToEvent", eventId, userId, "none", FALSE)

rsvpToEventResume(ok, isNewRsvp) == Settle("rsvpToEvent", ok, isNewRsvp)

deleteRsvpRequest(eventId, userId) ==
    Call("deleteRsvp", eventId, userId, "none", FALSE)

deleteRsvpResume(ok) == Settle("deleteRsvp", ok, FALSE)

\* The started server with an empty database, no connection and no call.
ControllersInit ==
    /\ StoreIdle
    /\ ConnIdle
    /\ CtlIdle
    /\ SvcIdle
    /\ NetIdle
    /\ ViewIdle
    /\ Started
    /\ caps = [on |-> FALSE, ping |-> FALSE]
    /\ readyState = [c \in Conns |-> "none"]
    /\ sendThrows = {}
    /\ connections = <<>>
    /\ isAlive = [c \in Conns |-> "undefined"]
    /\ topics = [events |-> {}, rsvps |-> {}]
    /\ hbIntervals = {}
    /\ pingOut = {}
    /\ hb = NoHb
    /\ lastSrv = NoStep

ControllersNext ==
    \/ \E u \in Principals : createEventRequest(u)
    \/ \E ok \in BOOLEAN : createEventResume(ok)
    \/ \E e \in DbEventIds, u \in Principals, role \in Roles,
          changes \in BOOLEAN : updateEventRequest(e, u, role, changes)
    \/ \E ok \in BOOLEAN : updateEventResume(ok)
    \/ \E e \in DbEventIds, u \in Principals, role \in Roles :
          deleteEventRequest(e, u, role)
    \/ \E ok \in BOOLEAN : deleteEventResume(ok)
    \/ \E e \in DbEventIds : approveEventRequest(e)
    \/ \E ok \in BOOLEAN : approveEventResume(ok)
    \/ \E e \in DbEventIds, u \in Principals : rsvpToEventRequest(e, u)
    \/ \E ok \in BOOLEAN, isNewRsvp \in BOOLEAN :
          rsvpToEventResume(ok, isNewRsvp)
    \/ \E e \in DbEventIds, u \in Principals : deleteRsvpRequest(e, u)
    \/ \E ok \in BOOLEAN : deleteRsvpResume(ok)
    \/ \E h \in ControllerNames : publishThrows(h)

SpecControllers == ControllersInit /\ [][ControllersNext]_vars

\* The persistence writes on the success path of a controller function.
WritesOf(h) ==
    Cardinality({i \in 1..Len(Program(h)) : Program(h)[i] \in WriteOps})

\* C7: a call that dispatched a broadcast did so after all the persistence
\* writes of its success path had succeeded (and, for deleteEvent, the
\* event row is gone); a call that returned 404, 403 or 400 wrote nothing
\* and dispatched nothing; a call that ended in a persistence failure
\* dispatched nothing.
C7_BroadcastOnlyAfterCommit ==
    /\ req.sent # <<>> =>
         /\ req.sentAt = WritesOf(req.h)
         /\ req.commits = WritesOf(req.h)
         /\ req.failure = "none"
         /\ req.h = "deleteEvent" => dbEvents[req.eventId].state = "absent"
         /\ req.h = "createEvent" => dbEvents[req.eventId].state = "pending"
    /\ req.status \in {404, 403, 400} =>
         (req.sent = <<>> /\ req.commits = 0)
    /\ req.failure = "persistence" => req.sent = <<>>

\* C7 witness: deleteEvent deleted the RSVP rows of an event that had
\* some, then the event row, then broadcast EVENT_DELETED and returned 200.
C7_Witness ==
    /\ req.h = "deleteEvent"
    /\ req.rsvps
    /\ req.commits = 2
    /\ req.sent = <<"EVENT_DELETED">>
    /\ req.status = 200
    /\ lastSrv.op = "broadcastEventUpdate"

\* C21: a call whose writes were committed and whose dispatch threw still
\* returns its success result (201 or 200), never an error result.
C21_DispatchFailureStillSucceeds ==
    req.failure = "broadcast" =>
        /\ req.commits = WritesOf(req.h)
        /\ req.status \in {200, 201}

\* C22: a call that has returned with all the writes of its success path
\* committed, and whose dispatch did not throw, has dispatched exactly one
\* broadcast, of the type of its mutation, whatever its other steps did.
C22_CommittedMutationNotified ==
    (/\ req.state = "done"
     /\ req.commits = WritesOf(req.h)
     /\ req.failure # "broadcast")
    => /\ Len(req.sent) = 1
       /\ req.sent[1] \in {MessageType(req.h, TRUE), MessageType(req.h, FALSE)}

\* C23: rsvpToEvent broadcasts RSVP_CREATED and returns 201 exactly when
\* no RSVP of (userId, eventId) existed before the call, and broadcasts
\* RSVP_UPDATED and returns 200 exactly when one existed.
C23_CreatedIffNoRsvpBefore ==
    (req.h = "rsvpToEvent" /\ req.sent # <<>>) =>
        IF req.existed
        THEN req.sent = <<"RSVP_UPDATED">> /\ req.status = 200
        ELSE req.sent = <<"RSVP_CREATED">> /\ req.status = 201

\* ------------------------------------------------------------------
\* Frontend: services/websocket.service.ts, the singleton client.
\*
\* The four handlers of a socket are the module's functions, which read
\* and write the module's variables, whichever socket delivers the event.
\* A socket the service called close(1000) on still delivers its events
\* later: an OPEN one its close event with code 1000; a CONNECTING one
\* fails, with an error event and then a close event with code 1006; one
\* that had failed, the close event it still owed.
\* ------------------------------------------------------------------

maxReconnectAttempts == 5

\* Bound: sockets the client creates in one run.
MaxSvcSockets == 7

SvcState ==
    [ws |-> svcWs, isConnected |-> isConnected,
     reconnectAttempts |-> reconnectAttempts,
     reconnectTimeout |-> reconnectTimeout,
     reconnectArmed |-> reconnectArmed, reconnectDelay |-> reconnectDelay,
     heartbeatInterval |-> heartbeatInterval, owed |-> owed]

\* Math.min(1000 * Math.pow(2, reconnectAttempts - 1), 30000)
ReconnectDelay(n) == Min(1000 * (2 ^ (n - 1)), 30000)

StopHeartbeat(S) == [S EXCEPT !.heartbeatInterval = FALSE]

\* scheduleReconnect(): the pending timer, if any, is replaced.
ScheduleReconnect(S) ==
    [S EXCEPT !.reconnectAttempts = @ + 1,
              !.reconnectDelay = ReconnectDelay(S.reconnectAttempts + 1),
              !.reconnectTimeout = TRUE,
              !.reconnectArmed = TRUE]

HandleConnectionError(S) ==
    LET T == StopHeartbeat([S EXCEPT !.isConnected = FALSE])
    IN  IF T.reconnectAttempts < maxReconnectAttempts
        THEN ScheduleReconnect(T)
        ELSE T

HandleClose(S, code) ==
    LET T == StopHeartbeat([S EXCEPT !.isConnected = FALSE])
    IN  IF code # 1000 /\ T.reconnectAttempts < maxReconnectAttempts
        THEN ScheduleReconnect(T)
        ELSE T

\* handleOpen(): startHeartbeat() replaces the interval.
HandleOpen(S) ==
    [S EXCEPT !.isConnected = TRUE, !.reconnectAttempts = 0,
              !.heartbeatInterval = TRUE]

\* The events a socket owes once close(1000, ...) was called on it.
OwedAfterClose(o, state) ==
    CASE state = "open" -> [o EXCEPT !.clean = @ + 1]
      [] state = "connecting" -> [o EXCEPT !.err = @ + 1]
      [] state = "errored" -> [o EXCEPT !.abn = @ + 1]
      [] OTHER -> o

Disconnect(S) ==
    [StopHeartbeat(S) EXCEPT
       !.reconnectTimeout = FALSE,
       !.reconnectArmed = FALSE,
       !.owed = OwedAfterClose(S.owed, S.ws),
       !.ws = "null",
       !.isConnected = FALSE,
       !.reconnectAttempts = 0]

\* connect(): nothing when the socket is OPEN; else disconnect(), then
\* `new WebSocket(wsUrl)` (the URL is well formed: no throw).
Connect(S) ==
    IF S.ws = "open"
    THEN S
    ELSE [Disconnect(S) EXCEPT !.ws = "connecting"]

\* The module variables take the values of T; the registry is untouched.
Becomes(T) ==
    /\ svcWs' = T.ws
    /\ isConnected' = T.isConnected
    /\ reconnectAttempts' = T.reconnectAttempts
    /\ reconnectTimeout' = T.reconnectTimeout
    /\ reconnectArmed' = T.reconnectArmed
    /\ reconnectDelay' = T.reconnectDelay
    /\ heartbeatInterval' = T.heartbeatInterval
    /\ owed' = T.owed
    /\ UNCHANGED <<messageHandlers, svcMsg>>
    /\ UNCHANGED notSvc

\* connect() called by the application.
connect ==
    /\ svcH.created < MaxSvcSockets
    /\ Becomes(Connect(SvcState))
    /\ svcH' = [created |-> IF svcWs = "open" THEN svcH.created
                            ELSE svcH.created + 1,
                auto |-> 0,
                disconnected |-> FALSE,
                op |-> IF svcWs = "open" THEN "connectWhileOpen"
                       ELSE "connect",
                silent |-> svcWs = "open" /\ svcH.silent]

\* The reconnect timer fires: `() => { connect() }`.
reconnectTimer ==
    /\ reconnectArmed
    /\ svcH.created < MaxSvcSockets
    /\ Becomes(Connect([SvcState EXCEPT !.reconnectArmed = FALSE]))
    /\ svcH' = [svcH EXCEPT
                  !.created = IF svcWs = "open" THEN @ ELSE @ + 1,
                  !.auto = IF svcWs = "open" THEN @ ELSE @ + 1,
                  !.op = "reconnectTimer",
                  !.silent = svcWs = "open" /\ @]

\* The open event of the current socket.
handleOpen ==
    /\ svcWs = "connecting"
    /\ Becomes(HandleOpen([SvcState EXCEPT !.ws = "open"]))
    /\ svcH' = [svcH EXCEPT !.auto = 0, !.op = "handleOpen"]

\* The error event of the current socket: the connection attempt, or the
\* open connection, failed.
handleError ==
    /\ svcWs \in {"connecting", "open"}
    /\ Becomes(HandleConnectionError([SvcState EXCEPT !.ws = "errored"]))
    /\ svcH' = [svcH EXCEPT !.op = "handleError"]

CloseCodes == {1000, 1006}

\* The close event of the current socket: after its error event (1006), or
\* of an open socket that the peer or the network closed.
handleClose(code) ==
    /\ \/ svcWs = "open"
       \/ svcWs = "errored" /\ code = 1006
    /\ Becomes(HandleClose([SvcState EXCEPT !.ws = "closed"], code))
    /\ svcH' = [svcH EXCEPT !.op = "handleClose"]

\* The error event of a socket the service had closed while CONNECTING.
staleError ==
    /\ owed.err > 0
    /\ Becomes(HandleConnectionError(
         [SvcState EXCEPT !.owed.err = @ - 1, !.owed.abn = @ + 1]))
    /\ svcH' = [svcH EXCEPT !.op = "staleError"]

\* The close event of a socket the service had closed.
staleClose(code) ==
    /\ IF code = 1000 THEN owed.clean > 0 ELSE owed.abn > 0
    /\ Becomes(HandleClose(
         IF code = 1000
         THEN [SvcState EXCEPT !.owed.clean = @ - 1]
         ELSE [SvcState EXCEPT !.owed.abn = @ - 1],
         code))
    /\ svcH' = [svcH EXCEPT !.op = "staleClose"]

\* The ping interval fires with the socket OPEN: one PING is sent (send()
\* on an OPEN socket does not throw).
heartbeatPing ==
    /\ heartbeatInterval
    /\ svcWs = "open"
    /\ svcH.op # "ping"
    /\ Becomes(SvcState)
    /\ svcH' = [svcH EXCEPT !.op = "ping"]

\* disconnect() called by the application.
disconnect ==
    /\ Becomes(Disconnect(SvcState))
    /\ svcH' = [svcH EXCEPT !.auto = 0, !.disconnected = TRUE,
                            !.op = "disconnect", !.silent = FALSE]

ServiceInit ==
    /\ StoreIdle
    /\ ConnIdle
    /\ SrvIdle
    /\ CtlIdle
    /\ SvcIdle
    /\ NetIdle
    /\ ViewIdle

ServiceNext ==
    \/ connect
    \/ reconnectTimer
    \/ handleOpen
    \/ handleError
    \/ \E code \in CloseCodes : handleClose(code)
    \/ staleError
    \/ \E code \in CloseCodes : staleClose(code)
    \/ heartbeatPing
    \/ disconnect

SpecService == ServiceInit /\ [][ServiceNext]_vars

\* C12: the automatic connection attempts made since the last open, manual
\* connect() or disconnect() never exceed maxReconnectAttempts (5): when
\* every attempt fails, the client stops scheduling after the ceiling.
C12_AutomaticAttemptsBounded ==
    svcH.auto <= maxReconnectAttempts

\* C13: once disconnect() has returned, and until connect() is called, no
\* reconnect timer is pending, no heartbeat interval is set,
\* reconnectAttempts is 0, isConnected is false, there is no current
\* socket, and no ping is sent, whatever events the closed socket delivers.
C13_DisconnectLeavesNothingPending ==
    svcH.disconnected =>
        /\ ~reconnectArmed
        /\ ~heartbeatInterval
        /\ reconnectAttempts = 0
        /\ ~isConnected
        /\ svcWs = "null"
        /\ svcH.op \notin {"ping", "reconnectTimer"}

\* C25: reconnectAttempts is 0 right after an open event; a transport that
\* fails counts once: its error event raises reconnectAttempts by one and
\* leaves the reconnect timer pending, and the close event that follows
\* the error event of the same transport does not raise it again.
C25_OneAttemptPerFailedTransport ==
    [][/\ (svcWs = "connecting" /\ svcWs' = "open") => reconnectAttempts' = 0
       /\ (svcWs \in {"connecting", "open"} /\ svcWs' = "errored")
            => (reconnectAttempts' = reconnectAttempts + 1 /\ reconnectArmed')
       /\ (svcWs = "errored" /\ svcWs' = "closed")
            => (reconnectAttempts' = reconnectAttempts /\ reconnectArmed')
      ]_vars

\* C28: whenever the current transport is open, isConnected is true and the
\* ping interval is running, also after the close or error event of a
\* transport that was replaced is delivered.
C28_OpenMeansConnected ==
    svcWs = "open" => (isConnected /\ heartbeatInterval)

(***************************************************************************)
(* A half-dead connection: the peer of the open socket stops responding    *)
(* and the browser delivers no close and no error event for it.  The       *)
(* service keeps its ping interval; a PONG, while the peer answers, goes   *)
(* through handleMessage, which returns on it.                             *)
(***************************************************************************)

\* The application connects once, at start.
connectAtStart ==
    /\ svcWs = "null"
    /\ svcH.created = 0
    /\ connect

\* The peer of the open socket falls silent.
peerSilent ==
    /\ svcWs = "open"
    /\ ~svcH.silent
    /\ Becomes(SvcState)
    /\ svcH' = [svcH EXCEPT !.silent = TRUE, !.op = "peerSilent"]

\* Events of the current socket, delivered while its peer is not silent.
peerError ==
    /\ ~svcH.silent
    /\ handleError

peerClose(code) ==
    /\ ~svcH.silent
    /\ handleClose(code)

HalfDeadNext ==
    \/ connectAtStart
    \/ reconnectTimer
    \/ handleOpen
    \/ peerError
    \/ \E code \in CloseCodes : peerClose(code)
    \/ staleError
    \/ \E code \in CloseCodes : staleClose(code)
    \/ heartbeatPing
    \/ peerSilent

\* Timers fire and the events of a reachable peer are delivered.
HalfDeadFairness ==
    /\ WF_vars(heartbeatPing)
    /\ WF_vars(reconnectTimer)
    /\ WF_vars(handleOpen)

SpecHalfDead == ServiceInit /\ [][HalfDeadNext]_vars /\ HalfDeadFairness

\* C24: when the peer of the open socket has fallen silent, the service
\* eventually marks the connection as not connected and has a reconnect
\* pending or under way.
C24_HalfDeadDetected ==
    (svcH.silent /\ svcWs = "open")
      ~> (~isConnected /\ (reconnectArmed \/ svcWs = "connecting"))

(***************************************************************************)
(* The handler registry and the receive path of the client service         *)
(* (frontend services/websocket.ts).  A frame is the text of one message   *)
(* event: text that is not JSON, or the JSON text of an object, whose      *)
(* `type` field is "undefined" when the object has none.  A handler        *)
(* either returns or throws; which ones throw is chosen per message.       *)
(***************************************************************************)

\* Bound: length of the registry.
MaxHandlers == 3

HandlerIds == {"h1", "h2"}

FrameTypes == {"PING", "PONG", "CONNECTED", "MESSAGE_RECEIVED",
               "EVENT_CREATED", "RSVP_UPDATED", "undefined"}

NotJson == CutShort([type |-> "EVENT_CREATED"])

ServiceFrames ==
    {NotJson} \cup {JsonStringify([type |-> t]) : t \in FrameTypes}

\* The early returns of handleMessage.
IsPingOnly(type) == type = "PING"

IsSystemMessage(type) ==
    type \in {"PING", "PONG", "CONNECTED", "MESSAGE_RECEIVED"}

\* The callback of forEach without its try/catch: a throw leaves the loop.
InvokeHandlerNoCatch(acc, handler, throwers) ==
    [called |-> Append(acc.called, handler), threw |-> handler \in throwers]

\* The callback of forEach: `try { handler(message) } catch (error) {...}`.
InvokeHandler(acc, handler, throwers) ==
    [called |-> Append(acc.called, handler), threw |-> FALSE]

\* messageHandlers.forEach(...): an exception out of the callback ends it.
RECURSIVE ForEachHandler(_, _, _)
ForEachHandler(handlers, acc, throwers) ==
    IF handlers = <<>> \/ acc.threw
    THEN acc
    ELSE ForEachHandler(Tail(handlers),
                        InvokeHandler(acc, Head(handlers), throwers),
                        throwers)

\* handleMessage(event): what it calls and sends.  The outer catch takes
\* the exception of JSON.parse and whatever leaves the loop.
HandleMessage(frame, handlers, wsOpen, throwers) ==
    LET parsed == JsonParse(frame)
        nothing == [called |-> <<>>, pongs |-> 0, escaped |-> FALSE]
    IN  CASE parsed.threw -> nothing
          [] ~parsed.threw /\ parsed.value.type = "PING" ->
                [nothing EXCEPT !.pongs = IF wsOpen THEN 1 ELSE 0]
          [] ~parsed.threw /\ parsed.value.type # "PING"
               /\ IsSystemMessage(parsed.value.type) -> nothing
          [] OTHER ->
                [nothing EXCEPT
                   !.called = ForEachHandler(handlers,
                                 [called |-> <<>>, threw |-> FALSE],
                                 throwers).called]

\* indexOf(handler): 0 when absent.
RECURSIVE IndexOf(_, _, _)
IndexOf(handlers, handler, i) ==
    IF i > Len(handlers) THEN 0
    ELSE IF handlers[i] = handler THEN i
    ELSE IndexOf(handlers, handler, i + 1)

\* splice(index, 1)
Splice(handlers, index) ==
    [i \in 1..(Len(handlers) - 1) |->
        IF i < index THEN handlers[i] ELSE handlers[i + 1]]

svcConnVars == <<svcWs, isConnected, reconnectAttempts, reconnectTimeout,
                 reconnectArmed, reconnectDelay, heartbeatInterval, owed,
                 svcH>>

addMessageHandler(handler) ==
    /\ Len(messageHandlers) < MaxHandlers
    /\ messageHandlers' = Append(messageHandlers, handler)
    /\ UNCHANGED <<svcConnVars, svcMsg>>
    /\ UNCHANGED notSvc

removeMessageHandler(handler) ==
    /\ messageHandlers' =
          LET index == IndexOf(messageHandlers, handler, 1)
          IN  IF index > 0 THEN Splice(messageHandlers, index)
              ELSE messageHandlers
    /\ UNCHANGED <<svcConnVars, svcMsg>>
    /\ UNCHANGED notSvc

\* The message event of the current socket, which is OPEN.
handleMessage(frame, throwers) ==
    /\ svcWs = "open"
    /\ LET r == HandleMessage(frame, messageHandlers, svcWs = "open", throwers)
       IN  svcMsg' = [kind |-> "handled",
                      json |-> frame.json,
                      type |-> IF frame.json THEN frame.body.type
                               ELSE "none",
                      open |-> svcWs = "open",
                      registered |-> messageHandlers,
                      throwers |-> throwers,
                      called |-> r.called,
                      pongs |-> r.pongs,
                      escaped |-> r.escaped,
                      afterThrow |-> svcMsg.kind = "handled"
                                     /\ \E i \in 1..Len(svcMsg.called) :
                                          svcMsg.called[i] \in svcMsg.throwers]
    /\ UNCHANGED <<svcConnVars, messageHandlers>>
    /\ UNCHANGED notSvc

DispatchInit ==
    /\ StoreIdle
    /\ ConnIdle
    /\ SrvIdle
    /\ CtlIdle
    /\ SvcIdle
    /\ NetIdle
    /\ ViewIdle

DispatchNext ==
    \/ connectAtStart
    \/ handleOpen
    \/ \E handler \in HandlerIds : addMessageHandler(handler)
    \/ \E handler \in HandlerIds : removeMessageHandler(handler)
    \/ \E frame \in ServiceFrames, throwers \in SUBSET HandlerIds :
          handleMessage(frame, throwers)

SpecDispatch == DispatchInit /\ [][DispatchNext]_vars

C17_ForwardedIffNotControl ==
    svcMsg.kind = "handled" =>
        LET forwarded == svcMsg.called = svcMsg.registered
                         /\ svcMsg.called # <<>>
            control == svcMsg.type \in {"PING", "PONG", "CONNECTED",
                                        "MESSAGE_RECEIVED"}
        IN  /\ svcMsg.registered # <<>> =>
                  (forwarded <=> (svcMsg.json /\ ~control))
            /\ ~(svcMsg.json /\ ~control) => svcMsg.called = <<>>
            /\ svcMsg.pongs = IF svcMsg.json /\ svcMsg.type = "PING"
                                 /\ svcMsg.open
                              THEN 1 ELSE 0

\* A PING arrived on the open socket with handlers registered.
C17_Witness ==
    /\ svcMsg.kind = "handled"
    /\ svcMsg.json
    /\ svcMsg.type = "PING"
    /\ svcMsg.open
    /\ Len(svcMsg.registered) = 2
    /\ svcMsg.pongs = 1
    /\ svcMsg.called = <<>>

(***************************************************************************)
(* Frames that are not JSON, on the three receive paths: ws.onmessage of   *)
(* the events store, handleMessage of the client service, and the message  *)
(* handler of the server route.  Each side has one connection, opened at   *)
(* start; frames of either kind then arrive in any order.                  *)
(***************************************************************************)

\* The frames about event 1.
FrameMessages == {m \in EventMessages : m.eventId = 1}

StoreFrames ==
    {JsonStringify(m) : m \in FrameMessages}
    \cup {CutShort(m) : m \in FrameMessages}

FrameServiceTypes == {"PING", "EVENT_CREATED"}

connectWebSocketAtStart ==
    /\ created = 0
    /\ connectWebSocket

\* ws.onmessage is a handler of the socket: it runs while the socket is
\* OPEN.
onmessageOpen(frame) ==
    /\ ws = "open"
    /\ onmessage(frame)

FramesInit ==
    /\ StoreIdle
    /\ ConnIdle
    /\ SrvIdle
    /\ CtlIdle
    /\ SvcIdle
    /\ NetIdle
    /\ ViewIdle

FramesNext ==
    \/ connectWebSocketAtStart
    \/ onopen
    \/ \E frame \in StoreFrames : onmessageOpen(frame)
    \/ connectAtStart
    \/ handleOpen
    \/ addMessageHandler("h1")
    \/ \E t \in FrameServiceTypes :
          \/ handleMessage(JsonStringify([type |-> t]), {})
          \/ handleMessage(CutShort([type |-> t]), {})
    \/ open(1)
    \/ \E type \in FrameKinds : message(1, type)

SpecFrames == FramesInit /\ [][FramesNext]_vars

\* C18: a frame that is not JSON is discarded without other effect.  The
\* step that receives it leaves the mirror, the retry state and the socket
\* of the store unchanged; leaves the connection state and the registry of
\* the client service unchanged, calls no handler and sends nothing; and
\* leaves the server's connection open, in the live set and in its topics.
\* The frame received next on the same connection is processed as any
\* other: an event frame is applied to the mirror by handleWebSocketMessage
\* and a data frame reaches every registered handler.
C18_MalformedFrameDiscarded ==
    [][/\ (last' # last /\ last'.op = "NOT_JSON")
            => UNCHANGED <<events, connVars>>
       /\ (svcMsg' # svcMsg /\ svcMsg'.kind = "handled" /\ ~svcMsg'.json)
            => /\ UNCHANGED <<svcConnVars, messageHandlers>>
               /\ svcMsg'.called = <<>>
               /\ svcMsg'.pongs = 0
       /\ (lastSrv' # lastSrv /\ lastSrv'.op = "NOT_JSON")
            => UNCHANGED <<readyState, connections, topics, isAlive,
                           hbIntervals>>
       /\ (last.op = "NOT_JSON" /\ last' # last /\ last'.op # "NOT_JSON")
            => /\ ws' = "open"
               /\ events' = HandleWebSocketMessage(events,
                               MkMessage(last'.op, last'.eventId,
                                         last'.userId, last'.event,
                                         last'.rsvp))
       /\ (svcMsg.kind = "handled" /\ ~svcMsg.json /\ svcMsg' # svcMsg
             /\ svcMsg'.json)
            => /\ svcMsg'.pongs = IF svcMsg'.type = "PING" THEN 1 ELSE 0
               /\ svcMsg'.called = IF svcMsg'.type = "PING" THEN <<>>
                                   ELSE messageHandlers
      ]_vars

\* Each of the three sides has just received a frame that is not JSON: the
\* store holds its mirror and its open socket, the service its open socket
\* and its handler, the server its open, subscribed connection.
C18_Witness ==
    /\ last.op = "NOT_JSON"
    /\ ws = "open"
    /\ events # <<>>
    /\ svcMsg.kind = "handled"
    /\ ~svcMsg.json
    /\ svcWs = "open"
    /\ messageHandlers # <<>>
    /\ lastSrv.op = "NOT_JSON"
    /\ readyState[1] = "open"
    /\ 1 \in SeqToSet(connections)
    /\ 1 \in topics.events \cap topics.rsvps

(***************************************************************************)
(* One client's events store and the server, end to end.  The store's      *)
(* n-th socket is the server's n-th connection.  The server is reachable:  *)
(* a connecting socket is accepted (the open handler of the route runs)    *)
(* and then opens on the client.  An open socket may close abnormally, a   *)
(* bounded number of times.  A committed mutation is the creation of a     *)
(* fresh event, notified by broadcastEventUpdate; the frames it publishes  *)
(* travel on net.wire and are taken by ws.onmessage of the open socket.    *)
(***************************************************************************)

\* The server accepts the socket the store is connecting.
accept ==
    /\ ws = "connecting"
    /\ created \in Conns
    /\ open(created)

\* The open event of a socket the server has accepted.
acceptedOpen ==
    /\ created \in Conns
    /\ readyState[created] = "open"
    /\ onopen

\* The open socket closes abnormally (network loss): its onclose runs.
abnormalClose ==
    /\ ws = "open"
    /\ created < MaxConns
    /\ oncloseCurrent

\* The server learns that a socket the client has lost is closed.
lostClose(c) ==
    /\ c < created \/ (c = created /\ ws = "closed")
    /\ close(c)

\* The frame of the n-th mutation.
CreatedFrame(n) ==
    JsonStringify(MkMessage("EVENT_CREATED", n, 0,
                            MkEvent(n, "t1", FALSE, <<>>), NoRsvp))

\* A controller has committed the creation of a fresh event and calls
\* broadcastEventUpdate.
notifyCreated ==
    /\ Len(net.sentTo) < MaxEventId
    /\ Dispatch("broadcastEventUpdate", "events")
    /\ LET n == Len(net.sentTo) + 1
           r == Broadcast("events")
       IN  net' = [wire |-> [c \in Conns |->
                               IF r.got[c] > 0
                               THEN Append(net.wire[c], CreatedFrame(n))
                               ELSE net.wire[c]],
                   sentTo |-> Append(net.sentTo,
                                IF /\ ws = "open"
                                   /\ readyState[created] = "open"
                                   /\ created \in topics.events
                                THEN created ELSE 0)]
    /\ UNCHANGED <<storeVars, connVars, ctlVars, svcVars, viewVars>>

\* The message event of the open socket: ws.onmessage takes the next frame.
receive ==
    /\ ws = "open"
    /\ created \in Conns
    /\ net.wire[created] # <<>>
    /\ events' = OnMessage(events, Head(net.wire[created]))
    /\ pre' = events
    /\ last' = LastOf(Head(net.wire[created]))
    /\ net' = [net EXCEPT !.wire[created] = Tail(@)]
    /\ UNCHANGED <<connVars, srvVars, ctlVars, svcVars, viewVars>>

EndToEndInit ==
    /\ StoreIdle
    /\ ConnIdle
    /\ CtlIdle
    /\ SvcIdle
    /\ NetIdle
    /\ ViewIdle
    /\ Started
    /\ caps = [on |-> TRUE, ping |-> TRUE]
    /\ readyState = [c \in Conns |-> "none"]
    /\ sendThrows = {}
    /\ connections = <<>>
    /\ isAlive = [c \in Conns |-> "undefined"]
    /\ topics = [events |-> {}, rsvps |-> {}]
    /\ hbIntervals = {}
    /\ pingOut = {}
    /\ hb = NoHb
    /\ lastSrv = NoStep

EndToEndNext ==
    \/ connectWebSocketAtStart
    \/ accept
    \/ acceptedOpen
    \/ abnormalClose
    \/ retryTimeout
    \/ \E c \in Conns : lostClose(c)
    \/ notifyCreated
    \/ receive

\* The retry timer fires, the reachable server accepts, the accepted
\* socket opens, and a frame in flight to an open socket arrives.
EndToEndFairness ==
    /\ WF_vars(retryTimeout)
    /\ WF_vars(accept)
    /\ WF_vars(acceptedOpen)
    /\ WF_vars(receive)

SpecEndToEnd == EndToEndInit /\ [][EndToEndNext]_vars /\ EndToEndFairness

\* C20: after an abnormal close below the retry ceiling, with the server
\* reachable, the store eventually holds an open socket again that the
\* server has subscribed to `events` and `rsvps`; and an event whose
\* creation is committed and notified while such a reconnected socket is
\* open is eventually in the mirror, unless that socket has closed in turn.
C20_ReconnectsAndReceives ==
    /\ (ws = "closed" /\ closes > 0 /\ wsRetryCount < wsMaxRetries)
         ~> (/\ ws = "open"
             /\ readyState[created] = "open"
             /\ created \in topics.events
             /\ created \in topics.rsvps)
    /\ \A n \in 1..MaxEventId :
         (/\ Len(net.sentTo) >= n
          /\ net.sentTo[n] = created
          /\ created > 1
          /\ ws = "open")
         ~> (\/ n \in IdsOf(events)
             \/ ws # "open"
             \/ Len(net.sentTo) >= n /\ net.sentTo[n] # created)

\* The store is on its second socket or a later one, open and subscribed,
\* and an event notified on that socket is in the mirror.
C20_Witness ==
    /\ created > 1
    /\ ws = "open"
    /\ readyState[created] = "open"
    /\ created \in topics.events \cap topics.rsvps
    /\ \E n \in 1..Len(net.sentTo) :
          /\ net.sentTo[n] = created
          /\ n \in IdsOf(events)

(***************************************************************************)
(* The Home view over the connection manager of the store.  onMounted      *)
(* awaits fetchEvents() and then calls connectWebSocket(); the             *)
(* continuation of the await runs in the microtask that settles the        *)
(* request, with no task in between, so the replacement of the mirror and  *)
(* the connect are one step.  onUnmounted is registered synchronously in   *)
(* setup and runs when the view is left, whether or not onMounted has      *)
(* resumed.  One instance of the view is mounted in a run.                 *)
(***************************************************************************)
\* onMounted up to its await: fetchEvents() has sent GET /events.
onMounted ==
    /\ home.pc = "none"
    /\ home' = [home EXCEPT !.pc = "fetching"]
    /\ UNCHANGED <<storeVars, connVars, srvVars, ctlVars, svcVars, netVars,
                   api>>

\* The request resolves: fetchEvents replaces the mirror and returns, and
\* onMounted goes on with connectWebSocket().
onMountedResume(fetchedEvents) ==
    /\ home.pc = "fetching"
    /\ home' = [home EXCEPT !.pc = "done"]
    /\ FetchEventsResume(fetchedEvents)
    /\ ConnectWebSocketCall
    /\ UNCHANGED <<srvVars, ctlVars, svcVars, netVars, api>>

\* The request rejects: fetchEvents rethrows, onMounted ends there.
onMountedReject ==
    /\ home.pc = "fetching"
    /\ home' = [home EXCEPT !.pc = "failed"]
    /\ UNCHANGED <<storeVars, connVars, srvVars, ctlVars, svcVars, netVars,
                   api>>

\* onUnmounted: disconnectWebSocket().
onUnmounted ==
    /\ home.pc # "none"
    /\ ~home.unmounted
    /\ home' = [home EXCEPT !.unmounted = TRUE]
    /\ DisconnectWebSocketCall
    /\ UNCHANGED <<storeVars, srvVars, ctlVars, svcVars, netVars, api>>

HomeInit ==
    /\ StoreIdle
    /\ ConnIdle
    /\ SrvIdle
    /\ CtlIdle
    /\ SvcIdle
    /\ NetIdle
    /\ ViewIdle

HomeNext ==
    \/ onMounted
    \/ \E fetchedEvents \in FetchLists : onMountedResume(fetchedEvents)
    \/ onMountedReject
    \/ onUnmounted
    \/ retryTimeout
    \/ onopen
    \/ oncloseCurrent
    \/ oncloseStale

SpecHome == HomeInit /\ [][HomeNext]_vars

\* C29: once onUnmounted has run, the store holds no open or connecting
\* socket and no pending retry timer, also when the view was left while the
\* fetchEvents() awaited by onMounted was in flight.
C29_UnmountedHoldsNothing ==
    home.unmounted => (ws \notin {"connecting", "open"} /\ ~timerArmed)

(***************************************************************************)
(* fetchEvents() against a server that commits while the request is in     *)
(* flight.  `api.committed` is what GET /events would return for this      *)
(* client (the approved events, by date, taken here in id order), as the   *)
(* event ids present with their contents.  A mutation commits and its      *)
(* broadcast is queued for the client's open socket; the response of       *)
(* GET /events travels on another connection, so the two arrive in either  *)
(* order.  `api.applied` records the ids whose broadcast the mirror        *)
(* applied since the request was sent.                                     *)
(***************************************************************************)
\* Bound: broadcasts queued for the client and not yet delivered.
MaxInFlight == 1

Absent == [i \in EventIds |-> "absent"]

\* Mutations of events this client can see: approval makes an event
\* visible, update changes a visible one, deletion removes it.
Mutations ==
    {MkMessage(t, e.id, 0, e, NoRsvp) :
        t \in {"EVENT_UPDATED", "EVENT_APPROVED"}, e \in WritePayloads}
    \cup {MkMessage("EVENT_DELETED", i, 0, NoEvent, NoRsvp) : i \in EventIds}

\* The mutation is one the controllers would commit on this state.
Commits(c, m) ==
    CASE m.type = "EVENT_APPROVED" -> c[m.eventId] = "absent"
      [] m.type = "EVENT_UPDATED" ->
            c[m.eventId] \notin {"absent", m.event.title}
      [] OTHER -> c[m.eventId] # "absent"

Commit(c, m) ==
    IF m.type = "EVENT_DELETED"
    THEN [c EXCEPT ![m.eventId] = "absent"]
    ELSE [c EXCEPT ![m.eventId] = m.event.title]

\* findMany() of getAllEvents: the visible events with their RSVP lists.
RECURSIVE FindMany(_, _)
FindMany(c, i) ==
    IF i > MaxEventId THEN <<>>
    ELSE (IF c[i] = "absent" THEN <<>> ELSE <<MkEvent(i, c[i], TRUE, <<>>)>>)
         \o FindMany(c, i + 1)

\* What a list says about event i: its contents, or that it is not there.
EntityOf(evs, i) ==
    LET index == FindIndexById(evs, i)
    IN IF index = 0 THEN "absent" ELSE evs[index].title

\* fetchEvents() up to `await api.get('/events')`.
fetchEventsSend ==
    /\ api.fetch = "none"
    /\ api' = [api EXCEPT !.fetch = "sent", !.applied = {}]
    /\ UNCHANGED <<storeVars, connVars, srvVars, ctlVars, svcVars, netVars,
                   home>>

\* getAllEvents on the server: the response is what is committed now.
getAllEvents ==
    /\ api.fetch = "sent"
    /\ api' = [api EXCEPT !.fetch = "answered",
                          !.response = FindMany(api.committed, 1)]
    /\ UNCHANGED <<storeVars, connVars, srvVars, ctlVars, svcVars, netVars,
                   home>>

\* The response arrives: `events.value = uniqueEvents`.
fetchEventsResolve ==
    /\ api.fetch = "answered"
    /\ FetchEventsResume(api.response)
    /\ api' = [api EXCEPT !.fetch = "none", !.response = <<>>]
    /\ UNCHANGED <<connVars, srvVars, ctlVars, svcVars, netVars, home>>

\* A controller commits a mutation and broadcasts it.
mutation(m) ==
    /\ Len(api.frames) < MaxInFlight
    /\ Commits(api.committed, m)
    /\ api' = [api EXCEPT !.committed = Commit(@, m),
                          !.frames = Append(@, JsonStringify(m))]
    /\ UNCHANGED <<storeVars, connVars, srvVars, ctlVars, svcVars, netVars,
                   home>>

\* The oldest queued broadcast reaches ws.onmessage of the open socket.
deliver ==
    /\ api.frames # <<>>
    /\ events' = OnMessage(events, Head(api.frames))
    /\ pre' = events
    /\ last' = LastOf(Head(api.frames))
    /\ api' = [api EXCEPT !.frames = Tail(@),
                          !.applied =
                              IF api.fetch = "none" THEN @
                              ELSE @ \cup {Head(api.frames).body.eventId}]
    /\ UNCHANGED <<connVars, srvVars, ctlVars, svcVars, netVars, home>>

FetchRaceInit ==
    /\ StoreIdle
    /\ ConnIdle
    /\ SrvIdle
    /\ CtlIdle
    /\ SvcIdle
    /\ NetIdle
    /\ home = [pc |-> "none", unmounted |-> FALSE]
    /\ api = [committed |-> Absent, fetch |-> "none", response |-> <<>>,
              frames |-> <<>>, applied |-> {}]

FetchRaceNext ==
    \/ fetchEventsSend
    \/ getAllEvents
    \/ fetchEventsResolve
    \/ \E m \in Mutations : mutation(m)
    \/ deliver

SpecFetchRace == FetchRaceInit /\ [][FetchRaceNext]_vars

\* C30: a broadcast applied to the mirror while fetchEvents() was in flight
\* is not lost: once the fetch has replaced the mirror and no broadcast is
\* on its way, the mirror says about that event what the server has
\* committed.
C30_FetchKeepsBroadcast ==
    (/\ last.op = "fetchEvents"
     /\ api.fetch = "none"
     /\ api.frames = <<>>)
        => \A i \in api.applied :
                EntityOf(events, i) = api.committed[i]

====
